---- MODULE Spec2Model ----
(***************************************************************************)
(* Model of the TODO guard of claude-spec-executor:                        *)
(*   src/hooks/validate-todo.py        PostToolUse hook for TodoWrite      *)
(*   src/hooks/check-pending-todos.py  Stop hook                           *)
(*   src/skills/spec-executor/scripts/checkpoint.py   checkpoint commands  *)
(*   src/skills/spec-executor/scripts/generate-todo.py   TODO renderer     *)
(*   src/skills/spec-executor/scripts/count_tasks.py     task counter      *)
(*   src/skills/spec-executor/scripts/expand-tasks.py    task expansion    *)
(*                                                                         *)
(* A Python str is modelled as a sequence of one-character strings, so     *)
(* that strip / split / "in" / lower are computed, not assumed.  The       *)
(* check mark U+2713 is the one-element token "CHK".  Python None is the   *)
(* one-element sequence <<"None">>, which is no character sequence.        *)
(***************************************************************************)
EXTENDS Integers, Sequences, FiniteSets, TLC

VARIABLES
    canonical,      \* project -> content of <project>/.claude/todo-canonical.json
    expected,       \* content of /tmp/claude-expected-todo-count (one global file)
    checkpoints,    \* <<project, spec_name>> -> .claude/checkpoints/<spec_name>.json
    decisions,      \* <<project, spec_name>> -> <spec_name>-decisions.md exists
    last,           \* history: the most recent call, its input and its output
    baseline,       \* history: project -> the list of the last implicit bootstrap
    inflight,       \* caller -> the checkpoint.py call it has begun, if any
    spec_json       \* content of the SPEC.json of project A, if there is one

vars ==
    <<canonical, expected, checkpoints, decisions, last, baseline, inflight,
      spec_json>>

----------------------------------------------------------------------------
(* Python str primitives over character sequences                          *)

None == <<"None">>

Truthy(v) == v # None /\ v # <<>>

Whitespace == {" ", "\t", "\n"}

Digits == {"0", "1", "2", "3", "4", "5", "6", "7", "8", "9"}

DigitValue ==
    [c \in Digits |->
        CASE c = "0" -> 0 [] c = "1" -> 1 [] c = "2" -> 2 [] c = "3" -> 3
          [] c = "4" -> 4 [] c = "5" -> 5 [] c = "6" -> 6 [] c = "7" -> 7
          [] c = "8" -> 8 [] c = "9" -> 9]

\* Unicode code points of the characters the model's strings are built from.
CodePoint ==
    ("\t" :> 9) @@ ("\n" :> 10) @@ (" " :> 32) @@ ("(" :> 40) @@ (")" :> 41)
    @@ ("-" :> 45) @@ ("." :> 46)
    @@ ("/" :> 47) @@ ("0" :> 48) @@ ("1" :> 49) @@ ("2" :> 50) @@ ("3" :> 51)
    @@ ("4" :> 52) @@ ("5" :> 53) @@ ("6" :> 54) @@ ("7" :> 55) @@ ("8" :> 56)
    @@ ("9" :> 57) @@ (":" :> 58) @@ ("?" :> 63) @@ ("L" :> 76) @@ ("X" :> 88) @@ ("[" :> 91)
    @@ ("]" :> 93) @@ ("a" :> 97) @@ ("b" :> 98) @@ ("c" :> 99) @@ ("d" :> 100)
    @@ ("e" :> 101) @@ ("h" :> 104) @@ ("i" :> 105) @@ ("k" :> 107)
    @@ ("l" :> 108) @@ ("m" :> 109)
    @@ ("n" :> 110) @@ ("o" :> 111) @@ ("p" :> 112) @@ ("s" :> 115)
    @@ ("t" :> 116) @@ ("x" :> 120) @@ ("CHK" :> 10003)

LowerChar(c) ==
    LET upper == <<"A", "B", "C", "D", "E", "F", "G", "H", "I", "J", "K", "L",
                   "M", "N", "O", "P", "Q", "R", "S", "T", "U", "V", "W", "X",
                   "Y", "Z">>
        lower == <<"a", "b", "c", "d", "e", "f", "g", "h", "i", "j", "k", "l",
                   "m", "n", "o", "p", "q", "r", "s", "t", "u", "v", "w", "x",
                   "y", "z">>
    IN  IF \E i \in 1..26 : upper[i] = c
        THEN lower[CHOOSE i \in 1..26 : upper[i] = c]
        ELSE c

\* str.lower()
Lower(s) == [i \in 1..Len(s) |-> LowerChar(s[i])]

RECURSIVE LStrip(_, _)
\* str.lstrip(chars)
LStrip(s, chars) ==
    IF s # <<>> /\ Head(s) \in chars THEN LStrip(Tail(s), chars) ELSE s

RECURSIVE RStrip(_, _)
\* str.rstrip(chars)
RStrip(s, chars) ==
    IF s # <<>> /\ s[Len(s)] \in chars
    THEN RStrip(SubSeq(s, 1, Len(s) - 1), chars)
    ELSE s

\* str.strip()
Strip(s) == RStrip(LStrip(s, Whitespace), Whitespace)

\* sub in s
Contains(s, sub) ==
    \E i \in 1..(Len(s) - Len(sub) + 1) : SubSeq(s, i, i + Len(sub) - 1) = sub

\* s.startswith(pre)
StartsWith(s, pre) == Len(s) >= Len(pre) /\ SubSeq(s, 1, Len(pre)) = pre

\* s.split(sep)[0] for a one-character sep
SplitFirst(s, sep) ==
    IF \E i \in 1..Len(s) : s[i] = sep
    THEN SubSeq(s, 1, (CHOOSE i \in 1..Len(s) :
                          s[i] = sep /\ \A j \in 1..(i - 1) : s[j] # sep) - 1)
    ELSE s

RECURSIVE RemoveAll(_, _)
\* s.replace(sub, "")
RemoveAll(s, sub) ==
    IF s = <<>> THEN <<>>
    ELSE IF StartsWith(s, sub)
         THEN RemoveAll(SubSeq(s, Len(sub) + 1, Len(s)), sub)
         ELSE <<Head(s)>> \o RemoveAll(Tail(s), sub)

\* s.isdigit()
IsDigit(s) == s # <<>> /\ \A i \in 1..Len(s) : s[i] \in Digits

RECURSIVE ToInt(_)
\* int(s) for a digit string
ToInt(s) ==
    IF s = <<>> THEN 0
    ELSE 10 * ToInt(SubSeq(s, 1, Len(s) - 1)) + DigitValue[s[Len(s)]]

RECURSIVE StrLess(_, _)
\* a < b on Python str (code point order)
StrLess(a, b) ==
    IF b = <<>> THEN FALSE
    ELSE IF a = <<>> THEN TRUE
    ELSE IF Head(a) # Head(b) THEN CodePoint[Head(a)] < CodePoint[Head(b)]
    ELSE StrLess(Tail(a), Tail(b))

Range(s) == {s[i] : i \in 1..Len(s)}

----------------------------------------------------------------------------
(* src/hooks/validate-todo.py: pure helpers                                *)

\* A TODO item is [content |-> <str>, status |-> <string>]; activeForm is
\* never read by the hooks and is left out.

\* Mutant: the identifier is the whole text of the item, not its prefix.
extract_task_id_whole_text(content) ==
    LET stripped == LStrip(Strip(content), {" ", "\t"})
        prefix   == Strip(SplitFirst(stripped, ":"))
    IN  IF Contains(stripped, <<":">>)
           /\ prefix # <<>>
           /\ (\/ Contains(prefix, <<".">>)
               \/ StartsWith(prefix, <<"p", "h", "a", "s", "e", "-">>)
               \/ Head(prefix) \in Digits)
        THEN stripped
        ELSE None

\* Mutant: the text before the colon is returned as it stands.
extract_task_id_untrimmed_prefix(content) ==
    LET stripped == LStrip(Strip(content), {" ", "\t"})
        prefix   == SplitFirst(stripped, ":")
    IN  IF Contains(stripped, <<":">>)
           /\ prefix # <<>>
           /\ (\/ Contains(prefix, <<".">>)
               \/ StartsWith(prefix, <<"p", "h", "a", "s", "e", "-">>)
               \/ Head(prefix) \in Digits)
        THEN prefix
        ELSE None

extract_task_id(content) ==
    LET stripped == LStrip(Strip(content), {" ", "\t"})
        prefix   == Strip(SplitFirst(stripped, ":"))
    IN  IF Contains(stripped, <<":">>)
           /\ prefix # <<>>
           /\ (\/ Contains(prefix, <<".">>)
               \/ StartsWith(prefix, <<"p", "h", "a", "s", "e", "-">>)
               \/ Head(prefix) \in Digits)
        THEN prefix
        ELSE None

\* Mutant: an item without identifier contributes None to the set.
extract_task_ids_keeps_none(todos) ==
    {extract_task_id(todos[i].content) : i \in 1..Len(todos)}

extract_task_ids(todos) ==
    {extract_task_id(todos[i].content) : i \in 1..Len(todos)} \ {None}

is_collapsed_phase(content) ==
    LET c == Strip(content)
    IN  \/ Contains(Lower(c), <<".", "x", ":">>)
        \/ Contains(Lower(c), <<".", "l", "o", "o", "p", ":">>)
        \/ /\ Contains(Lower(c), <<"c", "o", "m", "p", "l", "e", "t", "e", "d">>)
           /\ Contains(c, <<"CHK">>)

get_phase_number(task_id) ==
    IF Contains(task_id, <<".">>) THEN SplitFirst(task_id, ".")
    ELSE IF StartsWith(task_id, <<"p", "h", "a", "s", "e", "-">>)
         THEN RemoveAll(task_id, <<"p", "h", "a", "s", "e", "-">>)
         ELSE None

\* The sort key of save_canonical and validate_todos:
\* (int(x.split(".")[0]) if x.split(".")[0].isdigit() else 999, x)
sort_key_num(x) ==
    IF IsDigit(SplitFirst(x, ".")) THEN ToInt(SplitFirst(x, ".")) ELSE 999

sort_key_less(x, y) ==
    \/ sort_key_num(x) < sort_key_num(y)
    \/ sort_key_num(x) = sort_key_num(y) /\ StrLess(x, y)

RECURSIVE sorted_ids_plain(_)
\* Mutant: sorted(ids), without the key.
sorted_ids_plain(ids) ==
    IF ids = {} THEN <<>>
    ELSE LET m == CHOOSE x \in ids : \A y \in ids \ {x} : StrLess(x, y)
         IN  <<m>> \o sorted_ids_plain(ids \ {m})

RECURSIVE sorted_ids(_)
\* sorted(ids, key=...) on a set of distinct strings
sorted_ids(ids) ==
    IF ids = {} THEN <<>>
    ELSE LET m == CHOOSE x \in ids : \A y \in ids \ {x} : sort_key_less(x, y)
         IN  <<m>> \o sorted_ids(ids \ {m})

\* The contents of the canonical file: no file, a file json.load rejects
\* with JSONDecodeError, a file whose bytes are no UTF-8 text (reading it
\* raises UnicodeDecodeError, which load_canonical does not catch), or the
\* object save_canonical wrote.  created_at and spec_file are written but
\* read by no decision and are left out.
NoCanonical == [kind |-> "absent"]

CorruptCanonical == [kind |-> "corrupt"]

UndecodableCanonical == [kind |-> "undecodable"]

\* Mutant: only the items that carry an identifier are stored.
save_canonical_ids_only(todos) ==
    LET kept == SelectSeq(todos, LAMBDA t : extract_task_id(t.content) # None)
    IN  [kind       |-> "snapshot",
         task_count |-> Len(kept),
         task_ids   |-> sorted_ids(extract_task_ids(kept)),
         todos      |-> kept]

\* Mutant: task_count is the number of identifiers.
save_canonical_counts_ids(todos) ==
    [kind       |-> "snapshot",
     task_count |-> Cardinality(extract_task_ids(todos)),
     task_ids   |-> sorted_ids(extract_task_ids(todos)),
     todos      |-> todos]

save_canonical(todos) ==
    [kind       |-> "snapshot",
     task_count |-> Len(todos),
     task_ids   |-> sorted_ids(extract_task_ids(todos)),
     todos      |-> todos]

collapsed_phases_of(new_todos) ==
    {get_phase_number(extract_task_id(new_todos[i].content)) :
        i \in {j \in 1..Len(new_todos) :
                 /\ is_collapsed_phase(new_todos[j].content)
                 /\ Truthy(extract_task_id(new_todos[j].content))
                 /\ Truthy(get_phase_number(
                               extract_task_id(new_todos[j].content)))}}

\* Mutant: any summary item covers every phase.
missing_ids_of_any_summary(new_todos, canon) ==
    LET new_ids == extract_task_ids(new_todos)
        collapsed_phases == collapsed_phases_of(new_todos)
    IN  {orig_id \in Range(canon.task_ids) :
            LET phase_num == get_phase_number(orig_id)
            IN  /\ orig_id \notin new_ids
                /\ ~(Truthy(phase_num) /\ collapsed_phases # {})
                /\ ~(Truthy(phase_num) /\ (phase_num \o <<".", "x">>) \in new_ids)}

missing_ids_of(new_todos, canon) ==
    LET new_ids == extract_task_ids(new_todos)
        collapsed_phases == collapsed_phases_of(new_todos)
    IN  {orig_id \in Range(canon.task_ids) :
            LET phase_num == get_phase_number(orig_id)
            IN  /\ orig_id \notin new_ids
                /\ ~(Truthy(phase_num) /\ phase_num \in collapsed_phases)
                /\ ~(Truthy(phase_num) /\ (phase_num \o <<".", "x">>) \in new_ids)}

\* Mutant: the shrink test counts identifiers, not items.
validate_todos_counts_ids(new_todos, canon) ==
    LET missing_ids == missing_ids_of(new_todos, canon)
    IN  IF missing_ids # {}
        THEN [is_valid |-> FALSE, error |-> "removal",
              missing |-> sorted_ids(missing_ids)]
        ELSE IF Cardinality(extract_task_ids(new_todos)) < canon.task_count
                /\ collapsed_phases_of(new_todos) = {}
        THEN [is_valid |-> FALSE, error |-> "shrink", missing |-> <<>>]
        ELSE [is_valid |-> TRUE, error |-> "", missing |-> <<>>]

\* Mutant: the shrink test is <= where the code has <.
validate_todos_shrink_le(new_todos, canon) ==
    LET missing_ids == missing_ids_of(new_todos, canon)
    IN  IF missing_ids # {}
        THEN [is_valid |-> FALSE, error |-> "removal",
              missing |-> sorted_ids(missing_ids)]
        ELSE IF Len(new_todos) <= canon.task_count
                /\ collapsed_phases_of(new_todos) = {}
        THEN [is_valid |-> FALSE, error |-> "shrink", missing |-> <<>>]
        ELSE [is_valid |-> TRUE, error |-> "", missing |-> <<>>]

\* Mutant: a shorter list is never blocked once every identifier is covered.
validate_todos_no_shrink_test(new_todos, canon) ==
    LET missing_ids == missing_ids_of(new_todos, canon)
    IN  IF missing_ids # {}
        THEN [is_valid |-> FALSE, error |-> "removal",
              missing |-> sorted_ids(missing_ids)]
        ELSE [is_valid |-> TRUE, error |-> "", missing |-> <<>>]

\* Returns (is_valid, error_message); the message is its kind and, for a
\* removal, the sorted list it prints.
validate_todos(new_todos, canon) ==
    LET missing_ids == missing_ids_of(new_todos, canon)
    IN  IF missing_ids # {}
        THEN [is_valid |-> FALSE, error |-> "removal",
              missing |-> sorted_ids(missing_ids)]
        ELSE IF Len(new_todos) < canon.task_count
                /\ collapsed_phases_of(new_todos) = {}
        THEN [is_valid |-> FALSE, error |-> "shrink", missing |-> <<>>]
        ELSE [is_valid |-> TRUE, error |-> "", missing |-> <<>>]

\* The expectation file: no file, a file holding an integer, or a file
\* whose text int() rejects.
NoExpected == [kind |-> "absent"]

GarbageExpected == [kind |-> "garbage"]

IntExpected(n) == [kind |-> "int", n |-> n]

\* Mutant: only a list shorter than the expected count is a mismatch.
check_expected_count_less(new_todos, file) ==
    IF file.kind = "absent"
    THEN [is_valid |-> TRUE, message |-> "", file |-> file]
    ELSE IF file.kind = "garbage"
    THEN [is_valid |-> TRUE, message |-> "", file |-> file]
    ELSE IF Len(new_todos) < file.n
    THEN [is_valid |-> FALSE, message |-> "count_mismatch", file |-> file]
    ELSE [is_valid |-> TRUE, message |-> "count_validated", file |-> NoExpected]

\* Mutant: the file is not removed on a match.
check_expected_count_keeps_file(new_todos, file) ==
    IF file.kind = "absent"
    THEN [is_valid |-> TRUE, message |-> "", file |-> file]
    ELSE IF file.kind = "garbage"
    THEN [is_valid |-> TRUE, message |-> "", file |-> file]
    ELSE IF Len(new_todos) # file.n
    THEN [is_valid |-> FALSE, message |-> "count_mismatch", file |-> file]
    ELSE [is_valid |-> TRUE, message |-> "count_validated", file |-> file]

\* Mutant: a file whose text is no integer is removed.
check_expected_count_drops_garbage(new_todos, file) ==
    IF file.kind = "absent"
    THEN [is_valid |-> TRUE, message |-> "", file |-> file]
    ELSE IF file.kind = "garbage"
    THEN [is_valid |-> TRUE, message |-> "", file |-> NoExpected]
    ELSE IF Len(new_todos) # file.n
    THEN [is_valid |-> FALSE, message |-> "count_mismatch", file |-> file]
    ELSE [is_valid |-> TRUE, message |-> "count_validated", file |-> NoExpected]

\* Returns (is_valid, message) and the file as the call leaves it.
check_expected_count(new_todos, file) ==
    IF file.kind = "absent"
    THEN [is_valid |-> TRUE, message |-> "", file |-> file]
    ELSE IF file.kind = "garbage"
    THEN [is_valid |-> TRUE, message |-> "", file |-> file]
    ELSE IF Len(new_todos) # file.n
    THEN [is_valid |-> FALSE, message |-> "count_mismatch", file |-> file]
    ELSE [is_valid |-> TRUE, message |-> "count_validated", file |-> NoExpected]

----------------------------------------------------------------------------
(* Inputs                                                                  *)

MaxLen == 3         \* longest TODO list written
MaxExpected == 2    \* largest count an expectation file holds

Projects == {"A", "B"}

SpecNames == {"s1"}

S(content, status) == [content |-> content, status |-> status]

\* "0.1: a", "1.1: a", "0.x: a" (a phase summary) and "note" (no identifier)
Pool ==
    << S(<<"0", ".", "1", ":", " ", "a">>, "pending"),
       S(<<"1", ".", "1", ":", " ", "a">>, "pending"),
       S(<<"0", ".", "x", ":", " ", "a">>, "completed"),
       S(<<"n", "o", "t", "e">>, "pending") >>

\* For reconciliation alone: "0.1: a", "0.2: b", "0.x: a", "note", "10.1: a",
\* "2.1: a", "phase-2: completed CHK" (a summary without ".x"), "7: a" (an
\* identifier without a phase) and "0.x : a" (a ".x" identifier whose text
\* holds no ".x:").
ReconcilePool ==
    << S(<<"0", ".", "1", ":", " ", "a">>, "pending"),
       S(<<"0", ".", "2", ":", " ", "b">>, "pending"),
       S(<<"0", ".", "x", ":", " ", "a">>, "completed"),
       S(<<"n", "o", "t", "e">>, "pending"),
       S(<<"1", "0", ".", "1", ":", " ", "a">>, "pending"),
       S(<<"2", ".", "1", ":", " ", "a">>, "pending"),
       S(<<"p", "h", "a", "s", "e", "-", "2", ":", " ", "c", "o", "m", "p",
           "l", "e", "t", "e", "d", " ", "CHK">>, "completed"),
       S(<<"7", ":", " ", "a">>, "pending"),
       S(<<"0", ".", "x", " ", ":", " ", "a">>, "completed") >>

\* Every list of at most n items of pool, up to the order of the items (no
\* decision of the hook reads the order): the lists whose items follow the
\* order of the pool, repeats included.
ListsOver(pool, n) ==
    LET idx == UNION {[1..k -> 1..Len(pool)] : k \in 0..n}
    IN  {[i \in 1..Len(f) |-> pool[f[i]]] :
            f \in {g \in idx : \A i \in 1..(Len(g) - 1) : g[i] <= g[i + 1]}}

TodoLists == ListsOver(Pool, MaxLen)

ReconcileLists == ListsOver(ReconcilePool, MaxLen)

\* What a call of another tool carries where a TodoWrite carries its list.
OtherToolLists == {<<>>, <<Pool[1]>>}

----------------------------------------------------------------------------
(* Calls of checkpoint.py that have read the file and not yet written it   *)

\* The processes that may run checkpoint.py at the same time.
Callers == {"c1", "c2"}

Idle == [pc |-> "idle"]

----------------------------------------------------------------------------
(* History                                                                 *)

\* decision is what main prints on stdout ("block" or nothing, "none");
\* status is the stderr status or the kind of the block.
Call(op, project, tool, todos, decision, status, missing) ==
    [op |-> op, project |-> project, tool_name |-> tool, todos |-> todos,
     decision |-> decision, status |-> status, missing |-> missing,
     canonical_before |-> IF project \in Projects THEN canonical[project]
                                                     ELSE NoCanonical,
     expected_before |-> expected,
     checkpoints_before |-> checkpoints,
     decisions_before |-> decisions]

NoBaseline == [set |-> FALSE, todos |-> <<>>]

----------------------------------------------------------------------------
(* src/hooks/validate-todo.py: main                                        *)

\* Mutant: the tool name is not looked at.
main_result_any_tool(p, tool_name, todos) ==
    LET unchanged(decision, status, missing) ==
            [canonical |-> canonical[p], expected |-> expected,
             decision |-> decision, status |-> status, missing |-> missing]
        gate  == check_expected_count(todos, expected)
        canon == canonical[p]
        check == validate_todos(todos, canon)
    IN  IF todos = <<>> THEN unchanged("none", "empty", <<>>)
        ELSE IF ~gate.is_valid THEN unchanged("block", "count_mismatch", <<>>)
        ELSE IF gate.message = "count_validated"
        THEN [canonical |-> save_canonical(todos), expected |-> gate.file,
              decision |-> "none", status |-> "canonical_created",
              missing |-> <<>>]
        ELSE IF canon.kind = "undecodable"
        THEN unchanged("none", "uncaught_exception", <<>>)
        ELSE IF canon.kind = "absent"
        THEN [canonical |-> save_canonical(todos), expected |-> gate.file,
              decision |-> "none", status |-> "canonical_created_implicit",
              missing |-> <<>>]
        ELSE IF canon.kind = "corrupt" THEN unchanged("block", "corrupt", <<>>)
        ELSE IF ~check.is_valid
        THEN unchanged("block", check.error, check.missing)
        ELSE unchanged("none", "validated", <<>>)

\* Mutant: the expectation file gates the writes of project A only.
main_result_gate_of_A(p, tool_name, todos) ==
    LET unchanged(decision, status, missing) ==
            [canonical |-> canonical[p], expected |-> expected,
             decision |-> decision, status |-> status, missing |-> missing]
        gate  == IF p = "A" THEN check_expected_count(todos, expected)
                 ELSE [is_valid |-> TRUE, message |-> "", file |-> expected]
        canon == canonical[p]
        check == validate_todos(todos, canon)
    IN  IF tool_name # "TodoWrite" THEN unchanged("none", "not_todowrite", <<>>)
        ELSE IF todos = <<>> THEN unchanged("none", "empty", <<>>)
        ELSE IF ~gate.is_valid THEN unchanged("block", "count_mismatch", <<>>)
        ELSE IF gate.message = "count_validated"
        THEN [canonical |-> save_canonical(todos), expected |-> gate.file,
              decision |-> "none", status |-> "canonical_created",
              missing |-> <<>>]
        ELSE IF canon.kind = "undecodable"
        THEN unchanged("none", "uncaught_exception", <<>>)
        ELSE IF canon.kind = "absent"
        THEN [canonical |-> save_canonical(todos), expected |-> gate.file,
              decision |-> "none", status |-> "canonical_created_implicit",
              missing |-> <<>>]
        ELSE IF canon.kind = "corrupt" THEN unchanged("block", "corrupt", <<>>)
        ELSE IF ~check.is_valid
        THEN unchanged("block", check.error, check.missing)
        ELSE unchanged("none", "validated", <<>>)

\* Mutant: a list that fails reconciliation is saved as the canonical before
\* the block is printed.
main_result_saves_on_block(p, tool_name, todos) ==
    LET unchanged(decision, status, missing) ==
            [canonical |-> canonical[p], expected |-> expected,
             decision |-> decision, status |-> status, missing |-> missing]
        gate  == check_expected_count(todos, expected)
        canon == canonical[p]
        check == validate_todos(todos, canon)
    IN  IF tool_name # "TodoWrite" THEN unchanged("none", "not_todowrite", <<>>)
        ELSE IF todos = <<>> THEN unchanged("none", "empty", <<>>)
        ELSE IF ~gate.is_valid THEN unchanged("block", "count_mismatch", <<>>)
        ELSE IF gate.message = "count_validated"
        THEN [canonical |-> save_canonical(todos), expected |-> gate.file,
              decision |-> "none", status |-> "canonical_created",
              missing |-> <<>>]
        ELSE IF canon.kind = "undecodable"
        THEN unchanged("none", "uncaught_exception", <<>>)
        ELSE IF canon.kind = "absent"
        THEN [canonical |-> save_canonical(todos), expected |-> gate.file,
              decision |-> "none", status |-> "canonical_created_implicit",
              missing |-> <<>>]
        ELSE IF canon.kind = "corrupt" THEN unchanged("block", "corrupt", <<>>)
        ELSE IF ~check.is_valid
        THEN [canonical |-> save_canonical(todos), expected |-> expected,
              decision |-> "block", status |-> check.error,
              missing |-> check.missing]
        ELSE unchanged("none", "validated", <<>>)

\* What one run of the hook leaves: the canonical file of project p, the
\* expectation file, and what it printed.  An exception main does not catch
\* ends the run with a traceback on stderr and no decision on stdout.
main_result(p, tool_name, todos) ==
    LET unchanged(decision, status, missing) ==
            [canonical |-> canonical[p], expected |-> expected,
             decision |-> decision, status |-> status, missing |-> missing]
        gate  == check_expected_count(todos, expected)
        canon == canonical[p]
        check == validate_todos(todos, canon)
    IN  IF tool_name # "TodoWrite" THEN unchanged("none", "not_todowrite", <<>>)
        ELSE IF todos = <<>> THEN unchanged("none", "empty", <<>>)
        ELSE IF ~gate.is_valid THEN unchanged("block", "count_mismatch", <<>>)
        ELSE IF gate.message = "count_validated"
        THEN [canonical |-> save_canonical(todos), expected |-> gate.file,
              decision |-> "none", status |-> "canonical_created",
              missing |-> <<>>]
        ELSE IF canon.kind = "undecodable"
        THEN unchanged("none", "uncaught_exception", <<>>)
        ELSE IF canon.kind = "absent"
        THEN [canonical |-> save_canonical(todos), expected |-> gate.file,
              decision |-> "none", status |-> "canonical_created_implicit",
              missing |-> <<>>]
        ELSE IF canon.kind = "corrupt" THEN unchanged("block", "corrupt", <<>>)
        ELSE IF ~check.is_valid
        THEN unchanged("block", check.error, check.missing)
        ELSE unchanged("none", "validated", <<>>)

main(p, tool_name, todos) ==
    \E r \in {main_result(p, tool_name, todos)} :
        /\ canonical' = [canonical EXCEPT ![p] = r.canonical]
        /\ expected' = r.expected
        /\ last' = Call("main", p, tool_name, todos, r.decision, r.status,
                        r.missing)
        /\ baseline' =
              IF r.status = "canonical_created_implicit"
                 /\ expected.kind = "absent"
              THEN [baseline EXCEPT ![p] = [set |-> TRUE, todos |-> todos]]
              ELSE IF r.status = "canonical_created"
              THEN [baseline EXCEPT ![p] = NoBaseline]
              ELSE baseline
        /\ UNCHANGED <<inflight, checkpoints, decisions, spec_json>>

\* canonical.get("expected_count") of the stop hook, on the object
\* json.load returns for the canonical file.
get_expected_count(canon) ==
    IF "expected_count" \in DOMAIN canon THEN canon.expected_count ELSE None

\* Mutant: the process stops before the expectation file is removed.
main_killed_before_unlink(p, todos) ==
    /\ todos # <<>>
    /\ expected.kind = "int"
    /\ Len(todos) = expected.n
    /\ expected' = expected
    /\ last' = Call("main_killed", p, "TodoWrite", todos, "none", "killed",
                    <<>>)
    /\ UNCHANGED <<inflight, canonical, checkpoints, decisions, baseline,
                   spec_json>>

\* A run of main for a TodoWrite that matches the expectation file is
\* killed after check_expected_count has removed the file (line 292) and
\* before save_canonical is called (line 336): nothing is printed.
main_killed_after_unlink(p, todos) ==
    /\ todos # <<>>
    /\ expected.kind = "int"
    /\ Len(todos) = expected.n
    /\ expected' = check_expected_count(todos, expected).file
    /\ last' = Call("main_killed", p, "TodoWrite", todos, "none", "killed",
                    <<>>)
    /\ UNCHANGED <<inflight, canonical, checkpoints, decisions, baseline,
                   spec_json>>

\* A run of main whose history also keeps the call before it.
main_following(p, todos) ==
    \E r \in {main_result(p, "TodoWrite", todos)} :
        /\ canonical' = [canonical EXCEPT ![p] = r.canonical]
        /\ expected' = r.expected
        /\ last' = [previous_call |->
                        [f \in DOMAIN last \ {"previous_call"} |-> last[f]]]
                    @@ Call("main", p, "TodoWrite", todos, r.decision,
                            r.status, r.missing)
        /\ UNCHANGED <<inflight, checkpoints, decisions, baseline, spec_json>>

\* clear_canonical(project_dir) of validate-todo.py: the canonical file of
\* p is removed if it is there; no other file is touched.  (The name
\* clear_canonical is the flag of checkpoint.py's clear_checkpoint.)
clear_canonical_file(p) ==
    /\ canonical' = [canonical EXCEPT ![p] = NoCanonical]
    /\ last' = Call("clear_canonical", p, "", <<>>, "none", "", <<>>)
    /\ baseline' = [baseline EXCEPT ![p] = NoBaseline]
    /\ UNCHANGED <<expected, checkpoints, decisions, inflight, spec_json>>

----------------------------------------------------------------------------
(* src/hooks/check-pending-todos.py                                        *)

\* (pending, is_spec_mode) for the canonical file of a project.  raised
\* tells that open/json.load ended with an exception the function does not
\* catch (bytes that are not UTF-8), in which case nothing is returned.
\* A key expected_count holding null reads as None and is modelled as no key.
get_pending_todos(canon) ==
    LET not_completed(t) == t.status # "completed"
        content_of(todos) == [i \in 1..Len(todos) |-> todos[i].content]
    IN  IF canon.kind = "absent"
        THEN [pending |-> <<>>, is_spec_mode |-> FALSE, raised |-> FALSE]
        ELSE IF canon.kind = "undecodable"
        THEN [pending |-> <<>>, is_spec_mode |-> FALSE, raised |-> TRUE]
        ELSE IF canon.kind = "corrupt"
        THEN [pending |-> <<>>, is_spec_mode |-> FALSE, raised |-> FALSE]
        ELSE [pending |-> content_of(SelectSeq(canon.todos, not_completed)),
              is_spec_mode |-> "expected_count" \in DOMAIN canon,
              raised |-> FALSE]

\* What the stop hook prints on stdout for project p: "block", "approve",
\* or nothing ("none") when it ends with a traceback.
stop_decision(p) ==
    LET r == get_pending_todos(canonical[p])
    IN  IF r.raised THEN "none"
        ELSE IF r.pending # <<>> /\ r.is_spec_mode THEN "block"
        ELSE "approve"

\* One run of the stop hook in project p; it writes no file.
stop_main(p) ==
    /\ last' = [previous_call |->
                    [f \in DOMAIN last \ {"previous_call"} |-> last[f]]]
                @@ Call("stop", p, "", <<>>, stop_decision(p),
                        IF get_pending_todos(canonical[p]).raised
                        THEN "uncaught_exception" ELSE "", <<>>)
    /\ UNCHANGED <<inflight, canonical, expected, checkpoints, decisions,
                   baseline, spec_json>>

----------------------------------------------------------------------------
(* src/skills/spec-executor/scripts/checkpoint.py                          *)

\* The checkpoint file <spec_name>.json: no file, or the object the script
\* wrote.  spec_name, spec_file and loop_phase are written but read by no
\* operation of the script and are left out, and so are the time stamps
\* where one call ends before the next begins; where calls overlap the
\* lengths written decide what the file holds, and the time stamps are kept.
NoCheckpoint == [kind |-> "absent"]

\* A checkpoint file of length characters that is no JSON: json.load of
\* it raises JSONDecodeError.
InvalidCheckpoint(length) == [kind |-> "invalid", length |-> length]

\* A checkpoint file of 0 bytes: open(path, 'w') has emptied it and
\* json.dump has not yet written it.
TruncatedCheckpoint == InvalidCheckpoint(0)

\* No SPEC.json in the project.
NoSpec == [kind |-> "absent"]

\* History of a call of the script: its arguments and its exit code.
CheckpointCall(op, p, spec_name, index, item_id, exit_code) ==
    [spec_name |-> spec_name, index |-> index, item_id |-> item_id,
     exit_code |-> exit_code]
    @@ Call(op, p, "", <<>>, "none", "", <<>>)

\* The object init_checkpoint dumps.
init_checkpoint_object(total) ==
    [kind              |-> "checkpoint",
     total_items       |-> total,
     current_index     |-> 0,
     current_item_id   |-> None,
     current_item_name |-> None,
     current_task      |-> None,
     completed_items   |-> <<>>,
     failed_items      |-> <<>>,
     status            |-> "in_progress"]

\* Mutant: init keeps the ledger of failures of the checkpoint it replaces.
init_checkpoint_keeps_failed(p, spec_name, total) ==
    /\ checkpoints' =
          [checkpoints EXCEPT ![<<p, spec_name>>] =
              [kind              |-> "checkpoint",
               total_items       |-> total,
               current_index     |-> 0,
               current_item_id   |-> None,
               current_item_name |-> None,
               current_task      |-> None,
               completed_items   |-> <<>>,
               failed_items      |-> IF @.kind = "checkpoint"
                                     THEN @.failed_items ELSE <<>>,
               status            |-> "in_progress"]]
    /\ last' = CheckpointCall("init_checkpoint", p, spec_name, 0, None, 0)
    /\ UNCHANGED <<inflight, canonical, expected, decisions, baseline,
                   spec_json>>

init_checkpoint(p, spec_name, total) ==
    /\ checkpoints' =
          [checkpoints EXCEPT ![<<p, spec_name>>] =
              init_checkpoint_object(total)]
    /\ last' = CheckpointCall("init_checkpoint", p, spec_name, 0, None, 0)
    /\ UNCHANGED <<inflight, canonical, expected, decisions, baseline,
                   spec_json>>

read_checkpoint(p, spec_name) ==
    /\ last' = CheckpointCall("read_checkpoint", p, spec_name, 0, None, 0)
    /\ UNCHANGED <<inflight, canonical, expected, checkpoints, decisions,
                   baseline, spec_json>>

\* Mutant: the call creates an empty checkpoint before it exits.
no_checkpoint_found_creates(op, p, spec_name, index, item_id) ==
    /\ checkpoints[<<p, spec_name>>].kind = "absent"
    /\ checkpoints' =
          [checkpoints EXCEPT ![<<p, spec_name>>] =
              [kind |-> "checkpoint", total_items |-> 0, current_index |-> 0,
               current_item_id |-> None, current_item_name |-> None,
               current_task |-> None, completed_items |-> <<>>,
               failed_items |-> <<>>, status |-> "in_progress"]]
    /\ last' = CheckpointCall(op, p, spec_name, index, item_id, 1)
    /\ UNCHANGED <<inflight, canonical, expected, decisions, baseline,
                   spec_json>>

\* sys.exit(1) of update, complete and fail when the file does not exist
no_checkpoint_found(op, p, spec_name, index, item_id) ==
    /\ checkpoints[<<p, spec_name>>].kind = "absent"
    /\ last' = CheckpointCall(op, p, spec_name, index, item_id, 1)
    /\ UNCHANGED <<inflight, canonical, expected, checkpoints, decisions,
                   baseline, spec_json>>

\* Mutant: an update puts the status back to in_progress.
update_checkpoint_reopens(p, spec_name, index, task, item_id, item_name) ==
    \/ no_checkpoint_found("update_checkpoint", p, spec_name, index, item_id)
    \/ /\ checkpoints[<<p, spec_name>>].kind = "checkpoint"
       /\ checkpoints' =
             [checkpoints EXCEPT ![<<p, spec_name>>] =
                 [@ EXCEPT !.current_index = index,
                           !.current_task = task,
                           !.current_item_id =
                               IF Truthy(item_id) THEN item_id ELSE @,
                           !.current_item_name =
                               IF Truthy(item_name) THEN item_name ELSE @,
                           !.status = "in_progress"]]
       /\ last' = [task |-> task, item_name |-> item_name]
                  @@ CheckpointCall("update_checkpoint", p, spec_name, index,
                                    item_id, 0)
       /\ UNCHANGED <<inflight, canonical, expected, decisions, baseline,
                      spec_json>>

\* Mutant: an update without --item-id resets current_item_id.
update_checkpoint_resets_item(p, spec_name, index, task, item_id, item_name) ==
    \/ no_checkpoint_found("update_checkpoint", p, spec_name, index, item_id)
    \/ /\ checkpoints[<<p, spec_name>>].kind = "checkpoint"
       /\ checkpoints' =
             [checkpoints EXCEPT ![<<p, spec_name>>] =
                 [@ EXCEPT !.current_index = index,
                           !.current_task = task,
                           !.current_item_id = item_id,
                           !.current_item_name =
                               IF Truthy(item_name) THEN item_name ELSE @]]
       /\ last' = [task |-> task, item_name |-> item_name]
                  @@ CheckpointCall("update_checkpoint", p, spec_name, index,
                                    item_id, 0)
       /\ UNCHANGED <<inflight, canonical, expected, decisions, baseline,
                      spec_json>>

update_checkpoint(p, spec_name, index, task, item_id, item_name) ==
    \/ no_checkpoint_found("update_checkpoint", p, spec_name, index, item_id)
    \/ /\ checkpoints[<<p, spec_name>>].kind = "checkpoint"
       /\ checkpoints' =
             [checkpoints EXCEPT ![<<p, spec_name>>] =
                 [@ EXCEPT !.current_index = index,
                           !.current_task = task,
                           !.current_item_id =
                               IF Truthy(item_id) THEN item_id ELSE @,
                           !.current_item_name =
                               IF Truthy(item_name) THEN item_name ELSE @]]
       /\ last' = [task |-> task, item_name |-> item_name]
                  @@ CheckpointCall("update_checkpoint", p, spec_name, index,
                                    item_id, 0)
       /\ UNCHANGED <<inflight, canonical, expected, decisions, baseline,
                      spec_json>>

\* Mutant: completed only once the ledger is longer than total_items.
complete_item_strict(p, spec_name, index, item_id) ==
    \/ no_checkpoint_found("complete_item", p, spec_name, index, item_id)
    \/ /\ checkpoints[<<p, spec_name>>].kind = "checkpoint"
       /\ \E ck \in {checkpoints[<<p, spec_name>>]} :
          \E completed \in
                {Append(ck.completed_items,
                        [index   |-> index,
                         item_id |-> IF Truthy(item_id) THEN item_id
                                     ELSE ck.current_item_id])} :
             checkpoints' =
                [checkpoints EXCEPT ![<<p, spec_name>>] =
                    [ck EXCEPT !.completed_items = completed,
                               !.status =
                                   IF Len(completed) > ck.total_items
                                   THEN "completed" ELSE @]]
       /\ last' = CheckpointCall("complete_item", p, spec_name, index,
                                 item_id, 0)
       /\ UNCHANGED <<inflight, canonical, expected, decisions, baseline,
                      spec_json>>

\* Mutant: the new entry is put at the head of completed_items.
complete_item_prepends(p, spec_name, index, item_id) ==
    \/ no_checkpoint_found("complete_item", p, spec_name, index, item_id)
    \/ /\ checkpoints[<<p, spec_name>>].kind = "checkpoint"
       /\ \E ck \in {checkpoints[<<p, spec_name>>]} :
          \E completed \in
                {<<[index   |-> index,
                    item_id |-> IF Truthy(item_id) THEN item_id
                                ELSE ck.current_item_id]>>
                 \o ck.completed_items} :
             checkpoints' =
                [checkpoints EXCEPT ![<<p, spec_name>>] =
                    [ck EXCEPT !.completed_items = completed,
                               !.status =
                                   IF Len(completed) >= ck.total_items
                                   THEN "completed" ELSE @]]
       /\ last' = CheckpointCall("complete_item", p, spec_name, index,
                                 item_id, 0)
       /\ UNCHANGED <<inflight, canonical, expected, decisions, baseline,
                      spec_json>>

\* Mutant: the entry holds the --item-id given, or None.
complete_item_ignores_current(p, spec_name, index, item_id) ==
    \/ no_checkpoint_found("complete_item", p, spec_name, index, item_id)
    \/ /\ checkpoints[<<p, spec_name>>].kind = "checkpoint"
       /\ \E ck \in {checkpoints[<<p, spec_name>>]} :
          \E completed \in
                {Append(ck.completed_items,
                        [index   |-> index,
                         item_id |-> item_id])} :
             checkpoints' =
                [checkpoints EXCEPT ![<<p, spec_name>>] =
                    [ck EXCEPT !.completed_items = completed,
                               !.status =
                                   IF Len(completed) >= ck.total_items
                                   THEN "completed" ELSE @]]
       /\ last' = CheckpointCall("complete_item", p, spec_name, index,
                                 item_id, 0)
       /\ UNCHANGED <<inflight, canonical, expected, decisions, baseline,
                      spec_json>>

\* Mutant: an index already in the ledger is not entered again.
complete_item_dedups(p, spec_name, index, item_id) ==
    \/ no_checkpoint_found("complete_item", p, spec_name, index, item_id)
    \/ /\ checkpoints[<<p, spec_name>>].kind = "checkpoint"
       /\ \E ck \in {checkpoints[<<p, spec_name>>]} :
          \E completed \in
                {IF \E i \in 1..Len(ck.completed_items) :
                          ck.completed_items[i].index = index
                 THEN ck.completed_items
                 ELSE Append(ck.completed_items,
                             [index   |-> index,
                              item_id |-> IF Truthy(item_id) THEN item_id
                                          ELSE ck.current_item_id])} :
             checkpoints' =
                [checkpoints EXCEPT ![<<p, spec_name>>] =
                    [ck EXCEPT !.completed_items = completed,
                               !.status =
                                   IF Len(completed) >= ck.total_items
                                   THEN "completed" ELSE @]]
       /\ last' = CheckpointCall("complete_item", p, spec_name, index,
                                 item_id, 0)
       /\ UNCHANGED <<inflight, canonical, expected, decisions, baseline,
                      spec_json>>

complete_item(p, spec_name, index, item_id) ==
    \/ no_checkpoint_found("complete_item", p, spec_name, index, item_id)
    \/ /\ checkpoints[<<p, spec_name>>].kind = "checkpoint"
       /\ \E ck \in {checkpoints[<<p, spec_name>>]} :
          \E completed \in
                {Append(ck.completed_items,
                        [index   |-> index,
                         item_id |-> IF Truthy(item_id) THEN item_id
                                     ELSE ck.current_item_id])} :
             checkpoints' =
                [checkpoints EXCEPT ![<<p, spec_name>>] =
                    [ck EXCEPT !.completed_items = completed,
                               !.status =
                                   IF Len(completed) >= ck.total_items
                                   THEN "completed" ELSE @]]
       /\ last' = CheckpointCall("complete_item", p, spec_name, index,
                                 item_id, 0)
       /\ UNCHANGED <<inflight, canonical, expected, decisions, baseline,
                      spec_json>>

\* Mutant: a failure ends the checkpoint with status failed.
fail_item_sets_status(p, spec_name, index, item_id, reason) ==
    \/ no_checkpoint_found("fail_item", p, spec_name, index, item_id)
    \/ /\ checkpoints[<<p, spec_name>>].kind = "checkpoint"
       /\ \E ck \in {checkpoints[<<p, spec_name>>]} :
             checkpoints' =
                [checkpoints EXCEPT ![<<p, spec_name>>] =
                    [ck EXCEPT !.failed_items =
                        Append(@, [index   |-> index,
                                   item_id |-> IF Truthy(item_id) THEN item_id
                                               ELSE ck.current_item_id,
                                   reason  |-> reason]),
                               !.status = "failed"]]
       /\ last' = [reason |-> reason]
                  @@ CheckpointCall("fail_item", p, spec_name, index, item_id,
                                    0)
       /\ UNCHANGED <<inflight, canonical, expected, decisions, baseline,
                      spec_json>>

fail_item(p, spec_name, index, item_id, reason) ==
    \/ no_checkpoint_found("fail_item", p, spec_name, index, item_id)
    \/ /\ checkpoints[<<p, spec_name>>].kind = "checkpoint"
       /\ \E ck \in {checkpoints[<<p, spec_name>>]} :
             checkpoints' =
                [checkpoints EXCEPT ![<<p, spec_name>>] =
                    [ck EXCEPT !.failed_items =
                        Append(@, [index   |-> index,
                                   item_id |-> IF Truthy(item_id) THEN item_id
                                               ELSE ck.current_item_id,
                                   reason  |-> reason])]]
       /\ last' = [reason |-> reason]
                  @@ CheckpointCall("fail_item", p, spec_name, index, item_id,
                                    0)
       /\ UNCHANGED <<inflight, canonical, expected, decisions, baseline,
                      spec_json>>

\* Mutant: the decision log is left in place.
clear_checkpoint_keeps_decisions(p, spec_name, clear_canonical) ==
    /\ checkpoints' = [checkpoints EXCEPT ![<<p, spec_name>>] = NoCheckpoint]
    /\ decisions' = decisions
    /\ canonical' = IF clear_canonical
                    THEN [canonical EXCEPT ![p] = NoCanonical]
                    ELSE canonical
    /\ last' = CheckpointCall(IF clear_canonical THEN "clear"
                                                  ELSE "clear_keep_canonical",
                              p, spec_name, 0, None, 0)
    /\ baseline' = IF clear_canonical
                   THEN [baseline EXCEPT ![p] = NoBaseline]
                   ELSE baseline
    /\ UNCHANGED <<expected, inflight, spec_json>>

clear_checkpoint(p, spec_name, clear_canonical) ==
    /\ checkpoints' = [checkpoints EXCEPT ![<<p, spec_name>>] = NoCheckpoint]
    /\ decisions' = [decisions EXCEPT ![<<p, spec_name>>] = FALSE]
    /\ canonical' = IF clear_canonical
                    THEN [canonical EXCEPT ![p] = NoCanonical]
                    ELSE canonical
    /\ last' = CheckpointCall(IF clear_canonical THEN "clear"
                                                  ELSE "clear_keep_canonical",
                              p, spec_name, 0, None, 0)
    /\ baseline' = IF clear_canonical
                   THEN [baseline EXCEPT ![p] = NoBaseline]
                   ELSE baseline
    /\ UNCHANGED <<expected, inflight, spec_json>>

----------------------------------------------------------------------------
(* The environment of the hook                                             *)

\* The caller writes the count the next TODO must have into the global file.
WriteExpected(n) ==
    /\ expected' = IntExpected(n)
    /\ last' = Call("write_expected", "", "", <<>>, "none", "", <<>>)
    /\ baseline' = [q \in Projects |-> NoBaseline]
    /\ UNCHANGED <<inflight, canonical, checkpoints, decisions, spec_json>>

\* The canonical file of p is damaged on disk: json.load will reject it.
DamageCanonical(p) ==
    /\ canonical[p].kind = "snapshot"
    /\ canonical' = [canonical EXCEPT ![p] = CorruptCanonical]
    /\ last' = Call("damage", p, "", <<>>, "none", "", <<>>)
    /\ UNCHANGED <<inflight, expected, checkpoints, decisions, baseline,
                   spec_json>>

\* The canonical file of p is overwritten with bytes that are no UTF-8 text.
DamageCanonicalBytes(p) ==
    /\ canonical[p].kind = "snapshot"
    /\ canonical' = [canonical EXCEPT ![p] = UndecodableCanonical]
    /\ last' = Call("damage", p, "", <<>>, "none", "", <<>>)
    /\ UNCHANGED <<inflight, expected, checkpoints, decisions, baseline,
                   spec_json>>

----------------------------------------------------------------------------
(* One project driven by TodoWrite events, the expectation file and clear  *)

Init ==
    /\ canonical = [p \in Projects |-> NoCanonical]
    /\ expected = NoExpected
    /\ checkpoints = [k \in Projects \X SpecNames |-> NoCheckpoint]
    /\ decisions = [k \in Projects \X SpecNames |-> FALSE]
    /\ last = [op |-> "init", project |-> "", tool_name |-> "",
               todos |-> <<>>, decision |-> "none", status |-> "",
               missing |-> <<>>,
               canonical_before |-> NoCanonical,
               expected_before |-> NoExpected,
               checkpoints_before |->
                   [k \in Projects \X SpecNames |-> NoCheckpoint],
               decisions_before |-> [k \in Projects \X SpecNames |-> FALSE]]
    /\ baseline = [p \in Projects |-> NoBaseline]
    /\ inflight = [c \in Callers |-> Idle]
    /\ spec_json = NoSpec

Write == \E todos \in TodoLists : main("A", "TodoWrite", todos)

Clear == \E keep \in BOOLEAN : clear_checkpoint("A", "s1", ~keep)

Expect == \E n \in 0..MaxExpected : WriteExpected(n)

Damage == DamageCanonical("A")

Next ==
    \/ Write
    \/ \E todos \in OtherToolLists : main("A", "Bash", todos)
    \/ Clear \/ clear_canonical_file("A")
    \/ Expect \/ Damage

Spec == Init /\ [][Next]_vars

----------------------------------------------------------------------------
(* The same project when the canonical file may be damaged in either way   *)

NextDamaged ==
    \/ Write \/ Clear \/ clear_canonical_file("A")
    \/ Expect \/ Damage \/ DamageCanonicalBytes("A")

SpecDamaged == Init /\ [][NextDamaged]_vars

----------------------------------------------------------------------------
(* One checkpoint driven by the calls of checkpoint.py                     *)

MaxTotal == 2       \* largest --total given to init
MaxCompleted == 2   \* most entries of completed_items
MaxFailed == 2      \* most entries of failed_items

Indexes == {0, 1}

\* --item-id: not given, or "x"
ItemIds == {None, <<"x">>}

\* --item-name: not given, or "n"
ItemNames == {None, <<"n">>}

\* --reason: not given (the default ""), or "r"
Reasons == {<<>>, <<"r">>}

\* update --index 0 or 1 --task 2.1, with or without --item-id and with
\* or without --item-name
CkUpdate ==
    \E index \in Indexes, item_id \in ItemIds, item_name \in ItemNames :
        update_checkpoint("A", "s1", index, <<"2", ".", "1">>, item_id,
                          item_name)

CkComplete ==
    /\ checkpoints[<<"A", "s1">>].kind = "checkpoint"
          => Len(checkpoints[<<"A", "s1">>].completed_items) < MaxCompleted
    /\ \E index \in Indexes, item_id \in ItemIds :
          complete_item("A", "s1", index, item_id)

\* fail --index 0 or 1, with or without --item-id and --reason, while the
\* ledger of failures has fewer than MaxFailed entries
CkFail ==
    /\ checkpoints[<<"A", "s1">>].kind = "checkpoint"
          => Len(checkpoints[<<"A", "s1">>].failed_items) < MaxFailed
    /\ \E index \in Indexes, item_id \in ItemIds, reason \in Reasons :
          fail_item("A", "s1", index, item_id, reason)

NextCheckpoint ==
    \/ \E total \in 0..MaxTotal : init_checkpoint("A", "s1", total)
    \/ read_checkpoint("A", "s1")
    \/ CkUpdate \/ CkComplete \/ CkFail \/ Clear

SpecCheckpoint == Init /\ [][NextCheckpoint]_vars

----------------------------------------------------------------------------
(* The checkpoint next to its decision log and the canonical file          *)

\* The agent writes its decision log <spec_name>-decisions.md.
WriteDecisions(p, spec_name) ==
    /\ ~decisions[<<p, spec_name>>]
    /\ decisions' = [decisions EXCEPT ![<<p, spec_name>>] = TRUE]
    /\ last' = CheckpointCall("write_decisions", p, spec_name, 0, None, 0)
    /\ UNCHANGED <<inflight, canonical, expected, checkpoints, baseline,
                   spec_json>>

ClUpdate ==
    \E index \in Indexes :
        update_checkpoint("A", "s1", index, <<"2", ".", "1">>, None, None)

ClComplete ==
    /\ checkpoints[<<"A", "s1">>].kind = "checkpoint"
          => Len(checkpoints[<<"A", "s1">>].completed_items) < MaxCompleted
    /\ complete_item("A", "s1", 0, None)

ClFail ==
    /\ checkpoints[<<"A", "s1">>].kind = "checkpoint"
          => Len(checkpoints[<<"A", "s1">>].failed_items) < MaxFailed
    /\ fail_item("A", "s1", 0, None, <<>>)

\* The hook sees the TODO of the execution: "0.1: a", or "0.1: a", "1.1: a".
ClWrite ==
    \E todos \in {<<Pool[1]>>, <<Pool[1], Pool[2]>>} :
        main("A", "TodoWrite", todos)

NextClear ==
    \/ init_checkpoint("A", "s1", 1)
    \/ ClUpdate \/ ClComplete \/ ClFail
    \/ Clear \/ clear_canonical_file("A")
    \/ WriteDecisions("A", "s1")
    \/ ClWrite \/ Damage

SpecClear == Init /\ [][NextClear]_vars

----------------------------------------------------------------------------
(* validate_todos alone, on every pair of a canonical snapshot and a list  *)

\* main, lines 363-386: the decision it prints from validate_todos' answer.
Reconcile ==
    /\ last.op = "input"
    /\ \E v \in {validate_todos(last.todos, canonical["A"])} :
          last' = Call("validate_todos", "A", "TodoWrite", last.todos,
                       IF v.is_valid THEN "none" ELSE "block",
                       IF v.is_valid THEN "validated" ELSE v.error,
                       v.missing)
    /\ UNCHANGED <<inflight, canonical, expected, checkpoints, decisions,
                   baseline, spec_json>>

InitReconcile ==
    /\ \E c \in ReconcileLists \ {<<>>} :
          canonical = [p \in Projects |->
                          IF p = "A" THEN save_canonical(c) ELSE NoCanonical]
    /\ expected = NoExpected
    /\ checkpoints = [k \in Projects \X SpecNames |-> NoCheckpoint]
    /\ decisions = [k \in Projects \X SpecNames |-> FALSE]
    /\ \E t \in ReconcileLists \ {<<>>} :
          last = [op |-> "input", project |-> "A", tool_name |-> "TodoWrite",
                  todos |-> t, decision |-> "none", status |-> "",
                  missing |-> <<>>, canonical_before |-> NoCanonical,
                  expected_before |-> NoExpected]
    /\ baseline = [p \in Projects |-> NoBaseline]
    /\ inflight = [c \in Callers |-> Idle]
    /\ spec_json = NoSpec

NextReconcile == Reconcile

SpecReconcile == InitReconcile /\ [][NextReconcile]_vars

----------------------------------------------------------------------------
(* main on a rewrite of the list the canonical snapshot was created from   *)

Statuses == {"pending", "completed"}

\* "0.1: a", " 0.2 : a" (blanks around the identifier) and "note"
ChurnPool ==
    << S(<<"0", ".", "1", ":", " ", "a">>, "pending"),
       S(<<" ", "0", ".", "2", " ", ":", " ", "a">>, "pending"),
       S(<<"n", "o", "t", "e">>, "pending") >>

\* The texts a rewrite puts after the ":" of the identifier: " a",
\* " [1/40] a" and " b.x: c".
ChurnTails ==
    { <<" ", "a">>,
      <<" ", "[", "1", "/", "4", "0", "]", " ", "a">>,
      <<" ", "b", ".", "x", ":", " ", "c">> }

ChurnLists == ListsOver(ChurnPool, MaxLen) \ {<<>>}

\* The items one item may be rewritten to: any status, and any text after
\* the ":" that ends its identifier; an item without identifier keeps its
\* text.
RewritesOf(item) ==
    IF extract_task_id(item.content) = None
    THEN {S(item.content, st) : st \in Statuses}
    ELSE {S(SplitFirst(item.content, ":") \o <<":">> \o tail, st) :
             tail \in ChurnTails, st \in Statuses}

RewritesOfList(c) ==
    {t \in [1..Len(c) -> UNION {RewritesOf(c[i]) : i \in 1..Len(c)}] :
        \A i \in 1..Len(c) : t[i] \in RewritesOf(c[i])}

Churn ==
    /\ last.op = "input"
    /\ main("A", "TodoWrite", last.todos)

InitChurn ==
    /\ \E c \in ChurnLists :
          /\ canonical = [p \in Projects |->
                             IF p = "A" THEN save_canonical(c) ELSE NoCanonical]
          /\ \E t \in RewritesOfList(c) :
                last = [op |-> "input", project |-> "A",
                        tool_name |-> "TodoWrite", todos |-> t,
                        decision |-> "none", status |-> "", missing |-> <<>>,
                        canonical_before |-> NoCanonical,
                        expected_before |-> NoExpected]
    /\ expected \in {NoExpected} \cup {IntExpected(n) : n \in 1..MaxExpected}
    /\ checkpoints = [k \in Projects \X SpecNames |-> NoCheckpoint]
    /\ decisions = [k \in Projects \X SpecNames |-> FALSE]
    /\ baseline = [p \in Projects |-> NoBaseline]
    /\ inflight = [c \in Callers |-> Idle]
    /\ spec_json = NoSpec

NextChurn == Churn

SpecChurn == InitChurn /\ [][NextChurn]_vars

----------------------------------------------------------------------------
(* One project, its hook possibly killed in the middle of a run, with the  *)
(* call before the last one kept in the history                            *)

\* The lists over "0.1: a" and "1.1: a"
SequenceLists == ListsOver(<<Pool[1], Pool[2]>>, MaxLen) \ {<<>>}

NextSequence ==
    \/ \E todos \in SequenceLists : main_following("A", todos)
    \/ \E todos \in SequenceLists : main_killed_after_unlink("A", todos)
    \/ Expect
    \/ Damage
    \/ DamageCanonicalBytes("A")

SpecSequence == Init /\ [][NextSequence]_vars

----------------------------------------------------------------------------
(* src/skills/spec-executor/scripts/generate-todo.py and count_tasks.py    *)

\* A SPEC, a phase, a loop and a task are each the record of the keys the
\* JSON object has; every string is a character sequence.

\* The value under the key loop of a phase when it is null, {} or []: what
\* "if loop:" takes for false.  Any other loop is the record of its keys.
FalsyLoop == [kind |-> "falsy"]

\* d.get(key, default)
Get(d, key, default) == IF key \in DOMAIN d THEN d[key] ELSE default

DigitChar == <<"0", "1", "2", "3", "4", "5", "6", "7", "8", "9">>

RECURSIVE IntToStr(_)
\* str(n) of a non-negative int, as the f-strings format it
IntToStr(n) ==
    IF n < 10 THEN <<DigitChar[n + 1]>>
    ELSE IntToStr(n \div 10) \o <<DigitChar[(n % 10) + 1]>>

\* s[:n]
Take(s, n) == SubSeq(s, 1, IF Len(s) < n THEN Len(s) ELSE n)

RECURSIVE SplitAll(_, _)
\* s.split(sep) for a one-character sep
SplitAll(s, sep) ==
    IF \E i \in 1..Len(s) : s[i] = sep
    THEN <<SplitFirst(s, sep)>>
         \o SplitAll(SubSeq(s, Len(SplitFirst(s, sep)) + 2, Len(s)), sep)
    ELSE <<s>>

\* phase.get('loop') is None without the key, which "if loop:" takes for
\* false as well.
get_phase_tasks(phase) ==
    LET loop == Get(phase, "loop", FalsyLoop)
    IN  IF loop # FalsyLoop THEN Get(loop, "tasks", <<>>)
                            ELSE Get(phase, "tasks", <<>>)

is_loop_phase(phase) == "loop" \in DOMAIN phase

\* The tuple of the integer values of the all-digit parts of the identifier.
parse_task_id(task_id) ==
    LET parts == SelectSeq(SplitAll(task_id, "."), IsDigit)
    IN  [i \in 1..Len(parts) |-> ToInt(parts[i])]

RECURSIVE TupleLess(_, _)
\* a < b on Python tuples of int
TupleLess(a, b) ==
    IF b = <<>> THEN FALSE
    ELSE IF a = <<>> THEN TRUE
    ELSE IF Head(a) # Head(b) THEN Head(a) < Head(b)
    ELSE TupleLess(Tail(a), Tail(b))

RECURSIVE FlattenSeq(_)
FlattenSeq(ss) == IF ss = <<>> THEN <<>> ELSE Head(ss) \o FlattenSeq(Tail(ss))

\* The items of one task each, "<id>: <task[:60]>", all pending.
task_items(tasks) ==
    [i \in 1..Len(tasks) |->
        S(Get(tasks[i], "id", <<>>) \o <<":", " ">>
          \o Take(Get(tasks[i], "task", <<>>), 60), "pending")]

generate_base_todos(spec) ==
    LET phases == Get(spec, "phases", <<>>)
    IN  FlattenSeq([i \in 1..Len(phases) |->
                       task_items(get_phase_tasks(phases[i]))])

generate_todos(spec, checkpoint) ==
    LET phases == Get(spec, "phases", <<>>)
        in_loop == checkpoint.kind = "checkpoint"
                   /\ checkpoint.status = "in_progress"
        current_task == IF in_loop THEN checkpoint.current_task ELSE None
        total == IF in_loop THEN IntToStr(checkpoint.total_items) ELSE <<"0">>
        done == IF in_loop THEN IntToStr(Len(checkpoint.completed_items))
                           ELSE <<"0">>
        profile_num == IF in_loop THEN IntToStr(checkpoint.current_index + 1)
                                  ELSE <<"1">>
        phase_id(phase) == Get(phase, "id", <<>>)
        phase_name(phase) ==
            Get(phase, "name", <<"U", "n", "n", "a", "m", "e", "d", " ",
                                 "P", "h", "a", "s", "e">>)
        before_loop(i) == \A j \in 1..i : ~is_loop_phase(phases[j])
        completed_phase_ids ==
            IF in_loop THEN {phase_id(phases[i]) : i \in {j \in 1..Len(phases) :
                                                     before_loop(j)}}
                       ELSE {}
        status_of(task_id) ==
            IF ~Truthy(current_task) THEN "pending"
            ELSE IF TupleLess(parse_task_id(task_id),
                              parse_task_id(current_task))
            THEN "completed"
            ELSE IF task_id = current_task THEN "in_progress"
            ELSE "pending"
        expanded(tasks) ==
            [i \in 1..Len(tasks) |->
                S(<<" ", " ">> \o Get(tasks[i], "id", <<>>)
                  \o <<":", " ", "[">>
                  \o profile_num \o <<"/">> \o total \o <<"]", " ">>
                  \o Take(Get(tasks[i], "task", <<>>), 50),
                  status_of(Get(tasks[i], "id", <<>>)))]
        summary(phase) ==
            LET tasks == get_phase_tasks(phase)
                first_task_id == IF tasks # <<>>
                                 THEN Get(tasks[1], "id", <<"?">>)
                                 ELSE <<"?">>
                phase_num == SplitFirst(first_task_id, ".")
                n == IntToStr(Len(tasks))
            IN  S(phase_num \o <<".", "x", ":", " ">> \o phase_name(phase)
                  \o <<" ", "(">> \o n \o <<"/">> \o n \o <<")", " ", "CHK">>,
                  "completed")
        of_phase(phase) ==
            IF is_loop_phase(phase)
            THEN IF in_loop
                 THEN <<S(phase_id(phase) \o <<":", " ">> \o phase_name(phase)
                          \o <<" ", "(">> \o done \o <<"/">> \o total
                          \o <<")">>, "in_progress")>>
                      \o expanded(get_phase_tasks(phase))
                 ELSE <<S(phase_id(phase) \o <<":", " ">> \o phase_name(phase)
                          \o <<" ", "(">>
                          \o IntToStr(Len(get_phase_tasks(phase)))
                          \o <<" ", "t", "a", "s", "k", "s", "/", "i", "t",
                               "e", "m", ")">>, "pending")>>
            ELSE IF phase_id(phase) \in completed_phase_ids THEN <<summary(phase)>>
            ELSE task_items(get_phase_tasks(phase))
    IN  FlattenSeq([i \in 1..Len(phases) |-> of_phase(phases[i])])

\* The tasks count_tasks.py lists: those with a non-empty id and task.
extract_tasks_from_list(task_list) ==
    LET listed(task) == /\ Get(task, "id", <<>>) # <<>>
                        /\ Take(Get(task, "task", <<>>), 50) # <<>>
        kept == SelectSeq(task_list, listed)
    IN  [i \in 1..Len(kept) |->
            kept[i].id \o <<":", " ">> \o Take(kept[i].task, 50)]

\* The count of count_json_tasks, which main prints as the number of items
\* the TODO must have.
count_json_tasks(spec) ==
    LET phases == Get(spec, "phases", <<>>)
        loop(i) == Get(phases[i], "loop", FalsyLoop)
    IN  Len(FlattenSeq([i \in 1..Len(phases) |->
                extract_tasks_from_list(Get(phases[i], "tasks", <<>>))
                \o (IF loop(i) # FalsyLoop
                    THEN extract_tasks_from_list(Get(loop(i), "tasks", <<>>))
                    ELSE <<>>)]))

\* A run of one of the scripts in project p: what it printed and its exit
\* code, with the call before it kept in the history.  No file but the
\* SPEC file, which is left to the script, is written.
script_run(op, p, exit_code, output) ==
    /\ last' = [previous_call |->
                    [f \in DOMAIN last \ {"previous_call"} |-> last[f]],
                exit_code |-> exit_code]
               @@ output
               @@ Call(op, p, "", <<>>, "none", "", <<>>)
    /\ UNCHANGED <<canonical, expected, checkpoints, decisions, baseline,
                   inflight>>

\* main of count_tasks.py on the SPEC.json of p: "Total tasks: <count>" and
\* "Your TODO must have EXACTLY <count> items.", or an error and exit code
\* 1 without the file.
count_tasks_main(p) ==
    /\ IF spec_json = NoSpec
       THEN script_run("count_tasks", p, 1, [printed |-> <<>>])
       ELSE script_run("count_tasks", p, 0,
                       [count |-> count_json_tasks(spec_json)])
    /\ UNCHANGED spec_json

\* main of generate-todo.py --spec SPEC.json [--base] [--checkpoint name]
\* in p: the list it prints, or an error and exit code 1 without the SPEC
\* file.  With --base the checkpoint is not looked at; otherwise
\* generate_todos is given the checkpoint file of that name, None without
\* the file or without a name (""), and json.load of a checkpoint file
\* that is no JSON ends the run with the uncaught JSONDecodeError.
generate_todo_main(p, base, name) ==
    /\ IF spec_json = NoSpec
       THEN script_run("generate_todo", p, 1, [printed |-> <<>>])
       ELSE IF ~base /\ name # ""
               /\ checkpoints[<<p, name>>].kind = "invalid"
       THEN script_run("generate_todo", p, 1,
                       [printed |-> <<>>, error |-> "JSONDecodeError"])
       ELSE script_run("generate_todo", p, 0,
                       [base |-> base, checkpoint |-> name,
                        printed |->
                            IF base
                            THEN generate_base_todos(spec_json)
                            ELSE generate_todos(
                                     spec_json,
                                     IF name = "" THEN NoCheckpoint
                                     ELSE checkpoints[<<p, name>>])])
    /\ UNCHANGED spec_json

----------------------------------------------------------------------------
(* src/skills/spec-executor/scripts/expand-tasks.py                        *)

\* The word after the first of the verbs that has a word after it, without
\* its trailing ",.:;"; else the second word; else task[:20].
get_task_name(task) ==
    LET task_desc == Get(task, "task", <<>>)
        begins(i) == /\ task_desc[i] \notin Whitespace
                     /\ (i = 1 \/ task_desc[i - 1] \in Whitespace)
        starts == {i \in 1..Len(task_desc) : begins(i)}
        end_of(i) ==
            CHOOSE j \in i..Len(task_desc) :
                /\ \A k \in i..j : task_desc[k] \notin Whitespace
                /\ (j = Len(task_desc) \/ task_desc[j + 1] \in Whitespace)
        nth(n) == CHOOSE i \in starts :
                      Cardinality({j \in starts : j < i}) = n - 1
        \* task_desc.split()
        words == [n \in 1..Cardinality(starts) |->
                     SubSeq(task_desc, nth(n), end_of(nth(n)))]
        verbs == {<<"C", "r", "e", "a", "t", "e">>,
                  <<"I", "m", "p", "l", "e", "m", "e", "n", "t">>,
                  <<"B", "u", "i", "l", "d">>,
                  <<"A", "d", "d">>,
                  <<"U", "p", "d", "a", "t", "e">>,
                  <<"W", "r", "i", "t", "e">>}
        hits == {i \in 1..(Len(words) - 1) : words[i] \in verbs}
        first == CHOOSE i \in hits : \A j \in hits : i <= j
    IN  IF hits # {}
        THEN RStrip(words[first + 1], {",", ".", ":", ";"})
        ELSE IF Len(words) > 1 THEN words[2] ELSE Take(task_desc, 20)

\* The tasks one task is expanded to, by its type: ui to pre, main and
\* post; backend, func and docs to main and post; any other type to the
\* task itself.  The main task is the task without the key type.
expand_task(task) ==
    LET task_id == Get(task, "id", <<>>)
        task_name == get_task_name(task)
        task_type == Get(task, "type", <<>>)
        files == Get(task, "files", <<>>)
        file_name ==
            IF files # <<>>
            THEN SplitAll(files[1], "/")[Len(SplitAll(files[1], "/"))]
            ELSE <<"f", "i", "l", "e">>
        main_task == [k \in DOMAIN task \ {"type"} |-> task[k]]
        post_task(suffix, text) ==
            [id |-> task_id \o suffix, task |-> text,
             type |-> <<"_", "e", "x", "p", "a", "n", "d", "e", "d", "_",
                       "p", "o", "s", "t">>,
             parent_id |-> task_id]
        expand_ui_task ==
            << [id |-> task_id \o <<"a">>,
                task |->
                    <<"R", "u", "n", " ", "/", "f", "r", "o", "n", "t",
                      "e", "n", "d", "-", "d", "e", "s", "i", "g", "n",
                      " ", "a", "n", "d", " ", "/", "v", "e", "r", "c",
                      "e", "l", "-", "d", "e", "s", "i", "g", "n", "-",
                      "g", "u", "i", "d", "e", "l", "i", "n", "e", "s",
                      " ", "f", "o", "r", " ">>
                    \o task_name,
                type |-> <<"_", "e", "x", "p", "a", "n", "d", "e", "d", "_",
                          "p", "r", "e">>,
                parent_id |-> task_id],
               main_task,
               post_task(<<"b">>,
                    <<"V", "i", "s", "u", "a", "l", " ", "Q", "A", " ",
                      "f", "o", "r", " ">>
                    \o task_name
                    \o <<" ", "-", " ", "r", "u", "n", " ", "/", "v", "i",
                         "s", "u", "a", "l", "-", "q", "a", " ", "f", "o",
                         "r", " ", "n", "e", "w", " ", "c", "o", "m", "p",
                         "o", "n", "e", "n", "t", "s", ",", " ", "s", "k",
                         "i", "p", " ", "f", "o", "r", " ", "m", "i", "n",
                         "o", "r", " ", "e", "d", "i", "t", "s">>) >>
        expand_backend_task ==
            << main_task,
               post_task(<<"a">>,
                    <<"T", "e", "s", "t", " ">> \o task_name
                    \o <<" ", "-", " ", "v", "e", "r", "i", "f", "y", " ",
                         "r", "e", "t", "u", "r", "n", "s", " ", "c", "o",
                         "r", "r", "e", "c", "t", " ", "d", "a", "t", "a",
                         " ", "a", "n", "d", " ", "h", "a", "n", "d", "l",
                         "e", "s", " ", "e", "r", "r", "o", "r", "s">>) >>
        expand_func_task ==
            << main_task,
               post_task(<<"a">>,
                    <<"T", "e", "s", "t", " ">> \o task_name
                    \o <<" ", "-", " ", "r", "u", "n", " ", "t", "e", "s",
                         "t", "s", " ", "a", "n", "d", " ", "v", "e", "r",
                         "i", "f", "y", " ", "p", "a", "s", "s", "e", "s">>) >>
        expand_docs_task ==
            << main_task,
               [files |-> files]
               @@ post_task(<<"a">>,
                    <<"V", "e", "r", "i", "f", "y", " ">> \o file_name
                    \o <<" ", "e", "x", "i", "s", "t", "s", " ", "a", "n",
                         "d", " ", "i", "s", " ", "p", "r", "o", "p", "e",
                         "r", "l", "y", " ", "u", "p", "d", "a", "t", "e",
                         "d">>) >>
    IN  IF task_type = <<"u", "i">> THEN expand_ui_task
        ELSE IF task_type = <<"b", "a", "c", "k", "e", "n", "d">>
        THEN expand_backend_task
        ELSE IF task_type = <<"f", "u", "n", "c">> THEN expand_func_task
        ELSE IF task_type = <<"d", "o", "c", "s">> THEN expand_docs_task
        ELSE <<task>>

\* (phase, warnings) of expand_phase_tasks: the phase with its tasks, and
\* the tasks of its loop if "if loop:" holds, expanded, and the warnings of
\* check_alternating_ui for the two lists before expansion.
expand_phase_tasks(phase) ==
    LET phase_id == Get(phase, "id", <<"u", "n", "k", "n", "o", "w", "n">>)
        tasks == Get(phase, "tasks", <<>>)
        loop == Get(phase, "loop", FalsyLoop)
        loop_tasks == Get(loop, "tasks", <<>>)
        check_alternating_ui(ts, shown_id) ==
            LET type_of(i) == Get(ts[i], "type", <<"d", "e", "f", "a", "u",
                                                  "l", "t">>)
                is_ui(i) == type_of(i) = <<"u", "i">>
                alternations ==
                    Cardinality({i \in 2..Len(ts) : is_ui(i) # is_ui(i - 1)})
                in_pattern(i) ==
                    type_of(i) \in {<<"u", "i">>,
                                    <<"b", "a", "c", "k", "e", "n", "d">>,
                                    <<"f", "u", "n", "c">>}
                shown == SelectSeq([i \in 1..Len(ts) |-> i], in_pattern)
                part(n) == Get(ts[shown[n]], "id", <<"?">>) \o <<"(">>
                           \o type_of(shown[n]) \o <<")">>
                arrow == <<" ", "U+2192", " ">>
                pattern_str ==
                    FlattenSeq([n \in 1..Len(Take(shown, 6)) |->
                                   (IF n > 1 THEN arrow ELSE <<>>) \o part(n)])
                    \o (IF Len(shown) > 6 THEN arrow \o <<".", ".", ".">>
                                          ELSE <<>>)
            IN  IF Len(ts) < 4 \/ alternations < 3 THEN None
                ELSE <<"U+26A0", "U+FE0F", " ", " ", "P", "h", "a", "s",
                       "e", " ">>
                     \o shown_id
                     \o <<" ", "h", "a", "s", " ", "a", "l", "t", "e", "r",
                          "n", "a", "t", "i", "n", "g", " ", "U", "I", " ",
                          "t", "a", "s", "k", "s", ":", " ">>
                     \o pattern_str
                     \o <<"\n", " ", " ", " ", "C", "o", "n", "s", "i",
                          "d", "e", "r", " ", "g", "r", "o", "u", "p", "i",
                          "n", "g", " ", "U", "I", " ", "t", "a", "s", "k",
                          "s", " ", "t", "o", "g", "e", "t", "h", "e", "r",
                          " ", "t", "o", " ", "r", "e", "d", "u", "c", "e",
                          " ", "r", "e", "p", "e", "a", "t", "e", "d", " ",
                          "v", "i", "s", "u", "a", "l", " ", "v", "a", "l",
                          "i", "d", "a", "t", "i", "o", "n", "s", ".">>
                     \o <<"\n", " ", " ", " ", "T", "h", "i", "s", " ",
                          "i", "s", " ", "a", " ", "s", "u", "g", "g", "e",
                          "s", "t", "i", "o", "n", ",", " ", "n", "o", "t",
                          " ", "a", " ", "b", "l", "o", "c", "k", "e", "r",
                          ".">>
        warnings_of(ts, shown_id) ==
            IF check_alternating_ui(ts, shown_id) # None
            THEN <<check_alternating_ui(ts, shown_id)>> ELSE <<>>
        expanded(ts) == FlattenSeq([i \in 1..Len(ts) |-> expand_task(ts[i])])
    IN  IF loop # FalsyLoop
        THEN [phase |->
                  ("tasks" :> expanded(tasks))
                  @@ ("loop" :> (("tasks" :> expanded(loop_tasks)) @@ loop))
                  @@ phase,
              warnings |->
                  warnings_of(tasks, phase_id)
                  \o warnings_of(loop_tasks,
                                 phase_id \o <<" ", "(", "l", "o", "o",
                                               "p", ")">>)]
        ELSE [phase |-> ("tasks" :> expanded(tasks)) @@ phase,
              warnings |-> warnings_of(tasks, phase_id)]

\* The SPEC expand_spec returns: every phase expanded, and the key
\* _expansion with the warnings of all phases.
expand_spec(spec) ==
    LET phases == Get(spec, "phases", <<>>)
        results == [i \in 1..Len(phases) |-> expand_phase_tasks(phases[i])]
    IN  ("phases" :> [i \in 1..Len(phases) |-> results[i].phase])
        @@ ("_expansion" :>
               [expanded |-> TRUE,
                warnings |-> FlattenSeq([i \in 1..Len(phases) |->
                                            results[i].warnings])])
        @@ spec

\* main of expand-tasks.py SPEC.json [--preview] in p: without the file an
\* error and exit code 1; on a SPEC already expanded nothing is written;
\* else the counts of tasks before and after are printed and, without
\* --preview, the expanded SPEC is written over the SPEC file.
expand_tasks_main(p, preview) ==
    LET count_tasks(spec) ==
            LET phases == Get(spec, "phases", <<>>)
                loop(i) == Get(phases[i], "loop", FalsyLoop)
            IN  Len(FlattenSeq([i \in 1..Len(phases) |->
                        Get(phases[i], "tasks", <<>>)
                        \o (IF loop(i) # FalsyLoop
                            THEN Get(loop(i), "tasks", <<>>) ELSE <<>>)]))
    IN  IF spec_json = NoSpec
        THEN /\ script_run("expand_tasks", p, 1, [printed |-> <<>>])
             /\ UNCHANGED spec_json
        ELSE IF Get(Get(spec_json, "_expansion", [expanded |-> FALSE]),
                    "expanded", FALSE)
        THEN /\ script_run("expand_tasks", p, 0, [skipped |-> TRUE])
             /\ UNCHANGED spec_json
        ELSE /\ script_run("expand_tasks", p, 0,
                           [skipped |-> FALSE,
                            count_before |-> count_tasks(spec_json),
                            count_after |->
                                count_tasks(expand_spec(spec_json))])
             /\ spec_json' = IF preview THEN spec_json
                                        ELSE expand_spec(spec_json)

----------------------------------------------------------------------------
(* checkpoint.py run by two callers: each call is a test that the file     *)
(* exists, a load, an open for writing and a dump                          *)

\* now_iso(): the time stamp datetime.now(timezone.utc).isoformat() gives,
\* kept as its number of characters, which is all that a step of the script
\* depends on: 32, or 25 when the microseconds of the clock are 0 and
\* isoformat() leaves them out.
now_iso == {25, 32}

\* Most time stamps of 25 characters in the file and in the objects of the
\* calls under way, counted together.
MaxWholeSeconds == 1

\* The clock may give the time stamps read (a sequence) to a call: those
\* of 25 characters, with the ones in the checkpoint file p, spec_name and
\* in the objects of the calls under way, are at most MaxWholeSeconds.
clock_gives(p, spec_name, read) ==
    LET whole_seconds(ck) ==
            IF ck.kind # "checkpoint" THEN 0
            ELSE Cardinality({i \in 1..Len(ck.completed_items) :
                                 ck.completed_items[i].completed_at = 25})
                 + Cardinality({i \in 1..Len(ck.failed_items) :
                                   ck.failed_items[i].failed_at = 25})
                 + (IF ck.started_at = 25 THEN 1 ELSE 0)
                 + (IF ck.last_updated = 25 THEN 1 ELSE 0)
        under_way(d) ==
            IF inflight[d].pc = "loaded"
            THEN whole_seconds(inflight[d].checkpoint)
            ELSE IF inflight[d].pc = "opened"
            THEN whole_seconds(inflight[d].object)
            ELSE 0
        now == Cardinality({i \in 1..Len(read) : read[i] = 25})
    IN  now = 0
        \/ now + whole_seconds(checkpoints[<<p, spec_name>>])
               + under_way("c1") + under_way("c2") <= MaxWholeSeconds

\* The object update_checkpoint dumps, from the object ck it loaded.
update_checkpoint_object(ck, index, task, item_id, item_name, last_updated) ==
    [ck EXCEPT !.current_index = index,
               !.current_task = task,
               !.last_updated = last_updated,
               !.current_item_id = IF Truthy(item_id) THEN item_id ELSE @,
               !.current_item_name = IF Truthy(item_name) THEN item_name ELSE @]

\* Mutant: the ledger is started again from the new entry.
complete_item_object_restarts(ck, index, item_id, completed_at, last_updated) ==
    LET completed ==
            <<[index        |-> index,
               item_id      |-> IF Truthy(item_id) THEN item_id
                                ELSE ck.current_item_id,
               completed_at |-> completed_at]>>
    IN  [ck EXCEPT !.completed_items = completed,
                   !.last_updated = last_updated,
                   !.status = IF Len(completed) >= ck.total_items
                              THEN "completed" ELSE @]

\* The object complete_item dumps, from the object ck it loaded.
complete_item_object(ck, index, item_id, completed_at, last_updated) ==
    LET completed ==
            Append(ck.completed_items,
                   [index        |-> index,
                    item_id      |-> IF Truthy(item_id) THEN item_id
                                     ELSE ck.current_item_id,
                    completed_at |-> completed_at])
    IN  [ck EXCEPT !.completed_items = completed,
                   !.last_updated = last_updated,
                   !.status = IF Len(completed) >= ck.total_items
                              THEN "completed" ELSE @]

\* The object fail_item dumps, from the object ck it loaded.
fail_item_object(ck, index, item_id, reason, failed_at, last_updated) ==
    [ck EXCEPT !.failed_items =
                   Append(@, [index     |-> index,
                              item_id   |-> IF Truthy(item_id) THEN item_id
                                            ELSE ck.current_item_id,
                              failed_at |-> failed_at,
                              reason    |-> reason]),
               !.last_updated = last_updated]

\* The number of characters json.dump(checkpoint, f, indent=2) writes for
\* the checkpoint ck of the SPEC "s1": the keys in the order init_checkpoint
\* gives them, spec_file null, loop_phase "phase-2", each time stamp with
\* the characters it has, and every string in plain ASCII.
dump_length(ck) ==
    LET RECURSIVE Sum(_)
        Sum(q) == IF q = <<>> THEN 0 ELSE Head(q) + Sum(Tail(q))
        \* '"' + s + '"', or null
        str(v) == IF v = None THEN 4 ELSE Len(v) + 2
        int(n) == Len(IntToStr(n))
        time_stamp(t) == t + 2
        \* an indented line '"key": value' of a dict
        member(level, key_length, value_length) ==
            2 * level + (key_length + 2) + 2 + value_length
        \* '{' or '[', the lines joined by ',\n', and the closing line
        block(level, lines) ==
            IF lines = <<>> THEN 2
            ELSE 2 + Sum(lines) + 2 * (Len(lines) - 1)
                   + 1 + 2 * (level - 1) + 1
        \* index, item_id, completed_at
        completed_entry(e) ==
            2 * 2 + block(3, <<member(3, 5, int(e.index)),
                               member(3, 7, str(e.item_id)),
                               member(3, 12, time_stamp(e.completed_at))>>)
        \* index, item_id, failed_at, reason
        failed_entry(e) ==
            2 * 2 + block(3, <<member(3, 5, int(e.index)),
                               member(3, 7, str(e.item_id)),
                               member(3, 9, time_stamp(e.failed_at)),
                               member(3, 6, str(e.reason))>>)
        status_length == IF ck.status = "in_progress" THEN 11
                         ELSE IF ck.status = "completed" THEN 9
                         ELSE 6
    IN  block(1,
              <<member(1, 9, 2 + 2),               \* spec_name
                member(1, 9, 4),                   \* spec_file
                member(1, 10, time_stamp(ck.started_at)),
                member(1, 12, time_stamp(ck.last_updated)),
                member(1, 10, 7 + 2),              \* loop_phase
                member(1, 11, int(ck.total_items)),
                member(1, 13, int(ck.current_index)),
                member(1, 15, str(ck.current_item_id)),
                member(1, 17, str(ck.current_item_name)),
                member(1, 12, str(ck.current_task)),
                member(1, 15,
                       block(2, [i \in 1..Len(ck.completed_items) |->
                                    completed_entry(ck.completed_items[i])])),
                member(1, 12,
                       block(2, [i \in 1..Len(ck.failed_items) |->
                                    failed_entry(ck.failed_items[i])])),
                member(1, 6, status_length + 2)>>)

\* The calls under way as they are after a step of caller c that opened,
\* wrote or unlinked the checkpoint file: call is the call of c now, every
\* other call on the file has been overlapped, and after an unlink a call
\* that has the file open writes to a file that has no name any more.
\* History: a call that has just opened the file keeps in before_open the
\* two ledgers of the content it emptied.
after_step_of(c, call, p, spec_name, is_unlink) ==
    LET file == checkpoints[<<p, spec_name>>]
        before_open ==
            IF file.kind # "checkpoint" THEN [kind |-> file.kind]
            ELSE [kind            |-> "checkpoint",
                  completed_items |-> file.completed_items,
                  failed_items    |-> file.failed_items]
    IN  [d \in Callers |->
            IF d = c
            THEN IF call.pc = "opened"
                 THEN [before_open |-> before_open] @@ call
                 ELSE call
            ELSE IF inflight[d] = Idle \/ inflight[d].project # p
                    \/ inflight[d].spec_name # spec_name
            THEN inflight[d]
            ELSE [inflight[d] EXCEPT
                     !.overlapped = TRUE,
                     !.unlinked = @ \/ (is_unlink
                                        /\ inflight[d].pc = "opened")]]

\* First step of caller c running read, update, complete or fail on the
\* checkpoint: path.exists().  Without a file read prints "No checkpoint
\* found" and update, complete and fail end with exit code 1; with a file,
\* whatever it holds, the call goes on to read it.
exists_checkpoint_step(c, p, spec_name, op, index, item_id, item_name, reason) ==
    /\ inflight[c] = Idle
    /\ \/ /\ op # "read_checkpoint"
          /\ no_checkpoint_found(op, p, spec_name, index, item_id)
       \/ /\ op = "read_checkpoint"
          /\ checkpoints[<<p, spec_name>>].kind = "absent"
          /\ read_checkpoint(p, spec_name)
       \/ /\ checkpoints[<<p, spec_name>>].kind # "absent"
          /\ inflight' =
                [inflight EXCEPT ![c] =
                    [pc |-> "exists", op |-> op, project |-> p,
                     spec_name |-> spec_name, index |-> index,
                     item_id |-> item_id, item_name |-> item_name,
                     reason |-> reason,
                     overlapped |-> FALSE, unlinked |-> FALSE]]
          /\ last' = [op |-> "under_way"]
          /\ UNCHANGED <<canonical, expected, checkpoints, decisions,
                         baseline, spec_json>>

\* Second step of caller c: open(path, 'r') and json.load.  When the file
\* was unlinked since the first step the call ends with the uncaught
\* FileNotFoundError, on a file that is no JSON with the uncaught
\* JSONDecodeError, exit code 1 both; read ends after its load.
load_checkpoint_step(c) ==
    /\ inflight[c].pc = "exists"
    /\ \E call \in {inflight[c]} :
       \E file \in {checkpoints[<<call.project, call.spec_name>>]} :
          /\ IF file.kind # "checkpoint"
             THEN /\ inflight' = [inflight EXCEPT ![c] = Idle]
                  /\ last' = [caller |-> c,
                              error |-> IF file.kind = "absent"
                                        THEN "FileNotFoundError"
                                        ELSE "JSONDecodeError"]
                             @@ CheckpointCall(call.op, call.project,
                                               call.spec_name, call.index,
                                               call.item_id, 1)
             ELSE IF call.op = "read_checkpoint"
             THEN /\ inflight' = [inflight EXCEPT ![c] = Idle]
                  /\ last' = [caller |-> c]
                             @@ CheckpointCall(call.op, call.project,
                                               call.spec_name, call.index,
                                               call.item_id, 0)
             ELSE /\ inflight' =
                        [inflight EXCEPT ![c] =
                            [call EXCEPT !.pc = "loaded",
                                         !.overlapped = FALSE]
                            @@ [checkpoint |-> file]]
                  /\ last' = [op |-> "under_way"]
    /\ UNCHANGED <<canonical, expected, checkpoints, decisions, baseline,
                   spec_json>>

\* Third step of caller c: open(path, 'w') empties the file, whatever it
\* holds by now, or creates it.  The object the call dumps next is the
\* object it loaded, changed as its operation changes it; entry_at and
\* last_updated are what now_iso() gave the call between its load and this
\* open, and update reads the clock once, for last_updated.
open_checkpoint_step(c, entry_at, last_updated) ==
    /\ inflight[c].pc = "loaded"
    /\ \E call \in {inflight[c]} :
       \E object \in
             {IF call.op = "update_checkpoint"
              THEN update_checkpoint_object(
                       call.checkpoint, call.index, <<"2", ".", "1">>,
                       call.item_id, call.item_name, last_updated)
              ELSE IF call.op = "complete_item"
              THEN complete_item_object(call.checkpoint, call.index,
                                        call.item_id, entry_at, last_updated)
              ELSE fail_item_object(call.checkpoint, call.index,
                                    call.item_id, call.reason, entry_at,
                                    last_updated)} :
          /\ IF call.op = "update_checkpoint"
             THEN /\ entry_at = last_updated
                  /\ clock_gives(call.project, call.spec_name,
                                 <<last_updated>>)
             ELSE clock_gives(call.project, call.spec_name,
                              <<entry_at, last_updated>>)
          /\ checkpoints' =
                [checkpoints EXCEPT ![<<call.project, call.spec_name>>] =
                    TruncatedCheckpoint]
          /\ inflight' =
                after_step_of(
                    c,
                    [pc |-> "opened", object |-> object]
                    @@ call,
                    call.project, call.spec_name, FALSE)
          /\ last' = [op |-> "under_way"]
    /\ UNCHANGED <<canonical, expected, decisions, baseline, spec_json>>

\* Last step of caller c: json.dump writes the object of the call from
\* position 0 of the file the call opened, into a file without a name
\* when the file was unlinked since, else over what the file holds by now:
\* what a longer file holds behind the characters written stays, and the
\* file is no JSON.
dump_checkpoint_step(c) ==
    /\ inflight[c].pc = "opened"
    /\ \E call \in {inflight[c]} :
          /\ checkpoints' =
                LET file == checkpoints[<<call.project, call.spec_name>>]
                    file_length ==
                        IF file.kind = "absent" THEN 0
                        ELSE IF file.kind = "invalid" THEN file.length
                        ELSE dump_length(file)
                IN  IF call.unlinked THEN checkpoints
                    ELSE [checkpoints EXCEPT
                             ![<<call.project, call.spec_name>>] =
                                 IF file_length > dump_length(call.object)
                                 THEN InvalidCheckpoint(file_length)
                                 ELSE call.object]
          /\ inflight' = after_step_of(c, Idle, call.project,
                                       call.spec_name, FALSE)
          /\ last' = [caller |-> c, loaded |-> call.checkpoint,
                      before_open |-> call.before_open,
                      overlapped |-> call.overlapped,
                      unlinked |-> call.unlinked]
                     @@ CheckpointCall(call.op, call.project, call.spec_name,
                                       call.index, call.item_id, 0)
    /\ UNCHANGED <<canonical, expected, decisions, baseline, spec_json>>

\* First step of init by caller c: the two time stamps of the object and
\* open(path, 'w'), which creates the file or empties the one there.
open_init_step(c, p, spec_name, total, started_at, last_updated) ==
    /\ inflight[c] = Idle
    /\ \E object \in {[started_at |-> started_at,
                      last_updated |-> last_updated]
                     @@ init_checkpoint_object(total)} :
          /\ clock_gives(p, spec_name, <<started_at, last_updated>>)
          /\ inflight' =
                after_step_of(
                    c,
                    [pc |-> "opened", op |-> "init_checkpoint",
                     project |-> p, spec_name |-> spec_name, index |-> 0,
                     item_id |-> None, item_name |-> None, reason |-> <<>>,
                     checkpoint |-> NoCheckpoint,
                     object |-> object,
                     overlapped |-> FALSE, unlinked |-> FALSE],
                    p, spec_name, FALSE)
    /\ checkpoints' =
          [checkpoints EXCEPT ![<<p, spec_name>>] = TruncatedCheckpoint]
    /\ last' = [op |-> "under_way"]
    /\ UNCHANGED <<canonical, expected, decisions, baseline, spec_json>>

\* clear by caller c while other calls are under way: the unlink of the
\* checkpoint file, then of the decision log and, unless told to keep it,
\* of the canonical file.
unlink_checkpoint_step(c, p, spec_name, clear_canonical) ==
    /\ inflight[c] = Idle
    /\ checkpoints' = [checkpoints EXCEPT ![<<p, spec_name>>] = NoCheckpoint]
    /\ decisions' = [decisions EXCEPT ![<<p, spec_name>>] = FALSE]
    /\ canonical' = IF clear_canonical
                    THEN [canonical EXCEPT ![p] = NoCanonical]
                    ELSE canonical
    /\ baseline' = IF clear_canonical
                   THEN [baseline EXCEPT ![p] = NoBaseline]
                   ELSE baseline
    /\ inflight' = after_step_of(c, Idle, p, spec_name, TRUE)
    /\ last' = [caller |-> c]
               @@ CheckpointCall(IF clear_canonical
                                 THEN "clear" ELSE "clear_keep_canonical",
                                 p, spec_name, 0, None, 0)
    /\ UNCHANGED <<expected, spec_json>>

\* The calls of the two callers on the checkpoint s1 of project A.  Caller
\* c1 runs complete --index 0 --item-id x, and read; caller c2 runs init
\* --total MaxTotal over a checkpoint or without one, clear, and, with
\* --index 1 and without --item-id, read, update --item-name n, complete,
\* and fail --reason r.  A call is begun, and reads the file, only while
\* the two ledgers of the file together hold fewer than MaxCompleted
\* entries.
NextConcurrent ==
    LET file == checkpoints[<<"A", "s1">>]
        room == file.kind = "checkpoint"
                   => Len(file.completed_items) + Len(file.failed_items)
                      < MaxCompleted
    IN  \/ \E started_at, last_updated \in now_iso :
              open_init_step("c2", "A", "s1", MaxTotal, started_at,
                             last_updated)
        \/ unlink_checkpoint_step("c2", "A", "s1", TRUE)
        \/ /\ room
           /\ \/ exists_checkpoint_step("c1", "A", "s1", "complete_item", 0,
                                        <<"x">>, None, <<>>)
              \/ \E c \in Callers :
                    exists_checkpoint_step(c, "A", "s1", "read_checkpoint",
                                           0, None, None, <<>>)
              \/ exists_checkpoint_step("c2", "A", "s1", "update_checkpoint",
                                        1, None, <<"n">>, <<>>)
              \/ exists_checkpoint_step("c2", "A", "s1", "complete_item", 1,
                                        None, None, <<>>)
              \/ exists_checkpoint_step("c2", "A", "s1", "fail_item", 1,
                                        None, None, <<"r">>)
        \/ \E c \in Callers : room /\ load_checkpoint_step(c)
        \/ \E c \in Callers, entry_at, last_updated \in now_iso :
              open_checkpoint_step(c, entry_at, last_updated)
        \/ \E c \in Callers : dump_checkpoint_step(c)

SpecConcurrent == Init /\ [][NextConcurrent]_vars

----------------------------------------------------------------------------
(* Two projects and the one expectation file                               *)

\* The expectation file is written with n at the start of a SPEC execution
\* in project p.
WriteExpectedFor(p, n) ==
    /\ expected' = IntExpected(n)
    /\ last' = [previous_call |->
                    [f \in DOMAIN last \ {"previous_call"} |-> last[f]]]
                @@ Call("write_expected", p, "", <<>>, "none", "", <<>>)
    /\ UNCHANGED <<canonical, checkpoints, decisions, baseline, inflight,
                   spec_json>>

\* "0.1: a" once, twice, ... up to MaxLen times
SharedLists == ListsOver(<<Pool[1]>>, MaxLen) \ {<<>>}

NextShared ==
    \/ \E n \in 1..MaxExpected : WriteExpectedFor("A", n)
    \/ \E p \in Projects, todos \in SharedLists : main_following(p, todos)

SpecShared == Init /\ [][NextShared]_vars

----------------------------------------------------------------------------
(* Writes while the expectation file holds text that is no integer         *)

\* The expectation file is left with text int() rejects.
WriteGarbageExpected ==
    /\ expected' = GarbageExpected
    /\ last' = Call("write_expected", "", "", <<>>, "none", "", <<>>)
    /\ baseline' = [q \in Projects |-> NoBaseline]
    /\ UNCHANGED <<canonical, checkpoints, decisions, inflight, spec_json>>

NextGarbage ==
    \/ \E todos \in SequenceLists : main("A", "TodoWrite", todos)
    \/ WriteGarbageExpected
    \/ Expect
    \/ Damage

SpecGarbage == Init /\ [][NextGarbage]_vars

----------------------------------------------------------------------------
(* extract_task_id on short contents                                       *)

MaxContent == 4     \* longest content over the alphabet

ContentAlphabet == {" ", ":", ".", "1", "a"}

ShortContents(n) == UNION {[1..k -> ContentAlphabet] : k \in 0..n}

\* Every content of at most MaxContent characters of the alphabet, and
\* "phase-", "phase" and a tab each followed by at most two of them.
Contents ==
    ShortContents(MaxContent)
    \cup {pre \o c : pre \in {<<"p", "h", "a", "s", "e", "-">>,
                              <<"p", "h", "a", "s", "e">>, <<"\t">>},
                     c \in ShortContents(2)}

InitExtract ==
    /\ canonical = [p \in Projects |-> NoCanonical]
    /\ expected = NoExpected
    /\ checkpoints = [k \in Projects \X SpecNames |-> NoCheckpoint]
    /\ decisions = [k \in Projects \X SpecNames |-> FALSE]
    /\ \E c \in Contents :
          last = [op |-> "input", project |-> "A", tool_name |-> "TodoWrite",
                  todos |-> <<>>, decision |-> "none", status |-> "",
                  missing |-> <<>>, canonical_before |-> NoCanonical,
                  expected_before |-> NoExpected, content |-> c]
    /\ baseline = [p \in Projects |-> NoBaseline]
    /\ inflight = [c \in Callers |-> Idle]
    /\ spec_json = NoSpec

Extract ==
    /\ last.op = "input"
    /\ last' = [content |-> last.content,
                task_id |-> extract_task_id(last.content)]
               @@ Call("extract_task_id", "A", "TodoWrite", <<>>, "none", "",
                       <<>>)
    /\ UNCHANGED <<canonical, expected, checkpoints, decisions, baseline,
                   inflight, spec_json>>

NextExtract == Extract

SpecExtract == InitExtract /\ [][NextExtract]_vars

----------------------------------------------------------------------------
(* The generated TODO of a SPEC against the canonical of its base TODO     *)

MaxPhases == 2      \* most phases of a SPEC

T(id, task) == [id |-> id, task |-> task]

\* phase-0 with the ui task 0.1; the loop phase phase-2 with the docs task
\* 2.1 (with files) and the task 2.2; phase-1 with a tasks array (the
\* backend task 1.1) and a loop (the func task 1.2); phase-3 with a task
\* without the key id, a task with the id "" and a task with the
\* description ""; phase-4 with the task 4.1 and a loop that is {}.
PhasePool ==
    << [id |-> <<"p", "h", "a", "s", "e", "-", "0">>, name |-> <<"a">>,
        tasks |-> <<[type |-> <<"u", "i">>]
                    @@ T(<<"0", ".", "1">>, <<"a">>)>>],
       [id |-> <<"p", "h", "a", "s", "e", "-", "2">>, name |-> <<"a">>,
        loop |-> [tasks |->
                     <<[type |-> <<"d", "o", "c", "s">>,
                        files |-> <<<<"d", "/", "b">>>>]
                       @@ T(<<"2", ".", "1">>, <<"a">>),
                       T(<<"2", ".", "2">>, <<"b">>)>>]],
       [id |-> <<"p", "h", "a", "s", "e", "-", "1">>, name |-> <<"a">>,
        tasks |-> <<[type |-> <<"b", "a", "c", "k", "e", "n", "d">>]
                    @@ T(<<"1", ".", "1">>, <<"a">>)>>,
        loop |-> [tasks |-> <<[type |-> <<"f", "u", "n", "c">>]
                              @@ T(<<"1", ".", "2">>, <<"a">>)>>]],
       [id |-> <<"p", "h", "a", "s", "e", "-", "3">>, name |-> <<"a">>,
        tasks |-> <<[task |-> <<"a">>], T(<<>>, <<"a">>),
                    T(<<"3", ".", "1">>, <<>>)>>],
       [id |-> <<"p", "h", "a", "s", "e", "-", "4">>, name |-> <<"a">>,
        tasks |-> <<T(<<"4", ".", "1">>, <<"a">>)>>,
        loop |-> FalsyLoop] >>

\* SPECs of at most MaxPhases phases, phases in the order of the pool.
RenderSpecs ==
    {[phases |-> ph] :
        ph \in {q \in ListsOver(PhasePool, MaxPhases) :
                   \A i \in 1..(Len(q) - 1) : q[i] # q[i + 1]}}

\* Checkpoint states: none, a file of 0 bytes (another call is writing it),
\* in progress at any index and current task with none or one item
\* completed, and completed (at index 0 without a current task, with none
\* or one item completed).
RenderCheckpoints ==
    LET states ==
            {[kind              |-> "checkpoint",
              total_items       |-> 2,
              current_index     |-> index,
              current_item_id   |-> None,
              current_item_name |-> None,
              current_task      |-> task,
              completed_items   |-> done,
              failed_items      |-> <<>>,
              status            |-> status] :
                index \in Indexes,
                task \in {None, <<"2", ".", "1">>, <<"2", ".", "2">>},
                done \in {<<>>, <<[index |-> 0, item_id |-> None]>>},
                status \in {"in_progress", "completed"}}
    IN  {NoCheckpoint, TruncatedCheckpoint}
        \cup {ck \in states :
                 \/ ck.status = "in_progress"
                 \/ ck.current_index = 0 /\ ck.current_task = None}

InitRender ==
    /\ canonical = [p \in Projects |-> NoCanonical]
    /\ expected = NoExpected
    /\ \E ck \in RenderCheckpoints :
          checkpoints = [k \in Projects \X SpecNames |->
                            IF k = <<"A", "s1">> THEN ck ELSE NoCheckpoint]
    /\ decisions = [k \in Projects \X SpecNames |-> FALSE]
    /\ last = [op |-> "input", project |-> "A", tool_name |-> "TodoWrite",
               todos |-> <<>>, decision |-> "none", status |-> "",
               missing |-> <<>>, canonical_before |-> NoCanonical,
               expected_before |-> NoExpected]
    /\ baseline = [p \in Projects |-> NoBaseline]
    /\ inflight = [c \in Callers |-> Idle]
    /\ spec_json \in RenderSpecs \cup {NoSpec}

\* TodoWrite of the list generate-todo.py has just printed, through the
\* hook.
RdWrite ==
    /\ last.op = "generate_todo"
    /\ last.exit_code = 0
    /\ main_following("A", last.printed)

\* count_tasks.py SPEC.json; expand-tasks.py SPEC.json with or without
\* --preview; generate-todo.py --spec SPEC.json --base; generate-todo.py
\* --spec SPEC.json with --checkpoint s1 or without a checkpoint name; the
\* TodoWrite of the list printed.
NextRender ==
    \/ count_tasks_main("A")
    \/ \E preview \in BOOLEAN : expand_tasks_main("A", preview)
    \/ generate_todo_main("A", TRUE, "")
    \/ \E name \in {"", "s1"} : generate_todo_main("A", FALSE, name)
    \/ RdWrite

SpecRender == InitRender /\ [][NextRender]_vars

----------------------------------------------------------------------------
(* The stop hook on a canonical file of any content                        *)

\* "0.1: a" pending and completed, "1.1: a" completed and in progress
StopPool ==
    << S(<<"0", ".", "1", ":", " ", "a">>, "pending"),
       S(<<"0", ".", "1", ":", " ", "a">>, "completed"),
       S(<<"1", ".", "1", ":", " ", "a">>, "completed"),
       S(<<"1", ".", "1", ":", " ", "a">>, "in_progress") >>

StopLists == ListsOver(StopPool, MaxLen)

\* The canonical file as any writer may have left it: none, text json.load
\* rejects, bytes that are not UTF-8, or an object with the keys of
\* save_canonical and, for some, a key expected_count.
StopCanonicals ==
    {NoCanonical, CorruptCanonical, UndecodableCanonical}
    \cup {save_canonical(t) : t \in StopLists}
    \cup {[expected_count |-> n] @@ save_canonical(t) :
             t \in StopLists, n \in 0..MaxExpected}

InitStop ==
    /\ \E c \in StopCanonicals :
          canonical = [p \in Projects |-> IF p = "A" THEN c ELSE NoCanonical]
    /\ expected = NoExpected
    /\ checkpoints = [k \in Projects \X SpecNames |-> NoCheckpoint]
    /\ decisions = [k \in Projects \X SpecNames |-> FALSE]
    /\ last = [op |-> "input", project |-> "A", tool_name |-> "",
               todos |-> <<>>, decision |-> "none", status |-> "",
               missing |-> <<>>, canonical_before |-> NoCanonical,
               expected_before |-> NoExpected]
    /\ baseline = [p \in Projects |-> NoBaseline]
    /\ inflight = [c \in Callers |-> Idle]
    /\ spec_json = NoSpec

Stop == last.op = "input" /\ stop_main("A")

NextStop == Stop

SpecStop == InitStop /\ [][NextStop]_vars

----------------------------------------------------------------------------
(* Gate, writes and stops of one SPEC execution                            *)

FlowLists == ListsOver(<<StopPool[1], StopPool[2]>>, MaxLen) \ {<<>>}

NextFlow ==
    \/ \E todos \in FlowLists : main_following("A", todos)
    \/ stop_main("A")
    \/ Expect

SpecFlow == Init /\ [][NextFlow]_vars

----------------------------------------------------------------------------
(* validate_todos on lists of ordinary tasks and phase summaries           *)

\* "0.1: a", "0.2: a", "0.1: completed CHK", "0.2: b.x: c" (ordinary tasks
\* whose text a summary could hold), "0.x: a" and "0.loop: a" (summaries)
MarkerPool ==
    << S(<<"0", ".", "1", ":", " ", "a">>, "pending"),
       S(<<"0", ".", "2", ":", " ", "a">>, "pending"),
       S(<<"0", ".", "1", ":", " ", "c", "o", "m", "p", "l", "e", "t", "e",
           "d", " ", "CHK">>, "completed"),
       S(<<"0", ".", "2", ":", " ", "b", ".", "x", ":", " ", "c">>,
         "completed"),
       S(<<"0", ".", "x", ":", " ", "a">>, "completed"),
       S(<<"0", ".", "l", "o", "o", "p", ":", " ", "a">>, "in_progress") >>

MarkerLists == ListsOver(MarkerPool, MaxLen) \ {<<>>}

InitMarker ==
    /\ \E c \in MarkerLists :
          canonical = [p \in Projects |->
                          IF p = "A" THEN save_canonical(c) ELSE NoCanonical]
    /\ expected = NoExpected
    /\ checkpoints = [k \in Projects \X SpecNames |-> NoCheckpoint]
    /\ decisions = [k \in Projects \X SpecNames |-> FALSE]
    /\ \E t \in MarkerLists :
          last = [op |-> "input", project |-> "A", tool_name |-> "TodoWrite",
                  todos |-> t, decision |-> "none", status |-> "",
                  missing |-> <<>>, canonical_before |-> NoCanonical,
                  expected_before |-> NoExpected]
    /\ baseline = [p \in Projects |-> NoBaseline]
    /\ inflight = [c \in Callers |-> Idle]
    /\ spec_json = NoSpec

NextMarker == Reconcile

SpecMarker == InitMarker /\ [][NextMarker]_vars

----------------------------------------------------------------------------
(* validate_todos on two lists that hold the same items with identifier    *)

\* The items of todos that carry an identifier, in their order.
ItemsWithId(todos) ==
    SelectSeq(todos, LAMBDA t : extract_task_id(t.content) # None)

\* n items "note"
Notes(n) == [i \in 1..n |-> Pool[4]]

\* main, lines 363-386, run once on last.todos and once on last.other.
ReconcileBoth ==
    /\ last.op = "input_pair"
    /\ \E v \in {validate_todos(last.todos, canonical["A"])} :
       \E w \in {validate_todos(last.other, canonical["A"])} :
          last' = [other |-> last.other,
                   other_decision |-> IF w.is_valid THEN "none" ELSE "block",
                   other_status |-> IF w.is_valid THEN "validated" ELSE w.error,
                   other_missing |-> w.missing]
                  @@ Call("validate_todos_pair", "A", "TodoWrite", last.todos,
                          IF v.is_valid THEN "none" ELSE "block",
                          IF v.is_valid THEN "validated" ELSE v.error,
                          v.missing)
    /\ UNCHANGED <<inflight, canonical, expected, checkpoints, decisions,
                   baseline, spec_json>>

InitIdless ==
    /\ \E c \in TodoLists \ {<<>>} :
          canonical = [p \in Projects |->
                          IF p = "A" THEN save_canonical(c) ELSE NoCanonical]
    /\ expected = NoExpected
    /\ checkpoints = [k \in Projects \X SpecNames |-> NoCheckpoint]
    /\ decisions = [k \in Projects \X SpecNames |-> FALSE]
    /\ \E t \in TodoLists \ {<<>>}, n \in 0..MaxLen :
          /\ ItemsWithId(t) \o Notes(n) \notin {<<>>, t}
          /\ last = [op |-> "input_pair", project |-> "A",
                     tool_name |-> "TodoWrite", todos |-> t,
                     other |-> ItemsWithId(t) \o Notes(n),
                     decision |-> "none", status |-> "", missing |-> <<>>,
                     canonical_before |-> NoCanonical,
                     expected_before |-> NoExpected]
    /\ baseline = [p \in Projects |-> NoBaseline]
    /\ inflight = [c \in Callers |-> Idle]
    /\ spec_json = NoSpec

NextIdless == ReconcileBoth

SpecIdless == InitIdless /\ [][NextIdless]_vars

----------------------------------------------------------------------------
(* The vocabulary of the claims                                            *)

IsWrite == last.op = "main" /\ last.tool_name = "TodoWrite"

Blocked == last.decision = "block"

\* A summary item of phase ph: a collapse item whose identifier is of ph.
HasSummaryOf(todos, ph) ==
    \E i \in 1..Len(todos) :
        /\ is_collapsed_phase(todos[i].content)
        /\ extract_task_id(todos[i].content) # None
        /\ get_phase_number(extract_task_id(todos[i].content)) = ph

\* The phases for which todos holds a summary item.
DeclaredPhases(todos) ==
    {ph \in {get_phase_number(id) : id \in extract_task_ids(todos)} :
        Truthy(ph) /\ HasSummaryOf(todos, ph)}

\* id is present verbatim in todos, or its phase is declared collapsed in
\* todos by a summary item of that phase or by the identifier "<phase>.x".
Covered(id, todos) ==
    \/ id \in extract_task_ids(todos)
    \/ /\ Truthy(get_phase_number(id))
       /\ \/ HasSummaryOf(todos, get_phase_number(id))
          \/ (get_phase_number(id) \o <<".", "x">>) \in extract_task_ids(todos)

Uncovered(ids, todos) == {id \in ids : ~Covered(id, todos)}

----------------------------------------------------------------------------
(* C1 *)

\* C1 as stated: after an implicit bootstrap write B, with no clear and no
\* new expectation file since, every TodoWrite that is not blocked covers
\* every identifier of B.
C1_AsStated ==
    (IsWrite /\ baseline[last.project].set /\ ~Blocked)
        => Uncovered(extract_task_ids(baseline[last.project].todos),
                     last.todos) = {}

\* C1, amended: after an implicit bootstrap write B, with no clear and no new
\* expectation file since, every non-empty TodoWrite that is not blocked
\* covers every identifier of B (an empty TodoWrite passes unchecked).
C1_BaselineCovered ==
    (IsWrite /\ baseline[last.project].set /\ ~Blocked /\ last.todos # <<>>)
        => Uncovered(extract_task_ids(baseline[last.project].todos),
                     last.todos) = {}

\* A later write was allowed that replaced an identifier of B by the
\* summary of its phase.
C1_Witness ==
    /\ IsWrite /\ baseline["A"].set /\ last.status = "validated"
    /\ \E id \in extract_task_ids(baseline["A"].todos) :
          id \notin extract_task_ids(last.todos)

----------------------------------------------------------------------------
(* C2 *)

\* C2 as stated: reconciliation allows the write if and only if every
\* identifier of canonical.task_ids is covered by the new list.
C2_AsStated ==
    last.op = "validate_todos"
        => (~Blocked <=>
                Uncovered(Range(canonical["A"].task_ids), last.todos) = {})

\* C2, amended: reconciliation allows the write if and only if every
\* identifier of canonical.task_ids is covered by the new list and the list
\* is not shorter than canonical.task_count without holding a summary item
\* of some phase.
C2_AllowedIffCoveredAndNoShrink ==
    last.op = "validate_todos"
        => (~Blocked <=>
                /\ Uncovered(Range(canonical["A"].task_ids), last.todos) = {}
                /\ ~(/\ Len(last.todos) < canonical["A"].task_count
                     /\ DeclaredPhases(last.todos) = {}))

\* A write that drops two identifiers of a phase for the summary item of
\* that phase was allowed.
C2_Witness ==
    /\ last.op = "validate_todos" /\ ~Blocked
    /\ Cardinality(Range(canonical["A"].task_ids)
                       \ extract_task_ids(last.todos)) = 2
    /\ Len(last.todos) < canonical["A"].task_count

----------------------------------------------------------------------------
(* C3 *)

\* C3: after a write that reconciliation allows against an existing
\* canonical snapshot, the stored canonical equals that write (items, task
\* count and identifiers).
C3_CanonicalReplaced ==
    (IsWrite /\ last.status = "validated")
        => /\ canonical[last.project].todos = last.todos
           /\ canonical[last.project].task_count = Len(last.todos)
           /\ Range(canonical[last.project].task_ids)
                 = extract_task_ids(last.todos)

----------------------------------------------------------------------------
(* C4 *)

\* C4: with no expectation file, a TodoWrite of the very list the canonical
\* snapshot was created from is allowed, and the snapshot's identifiers and
\* task count are afterwards what they were.
C4_Idempotent ==
    (/\ IsWrite
     /\ last.expected_before.kind = "absent"
     /\ last.canonical_before.kind = "snapshot"
     /\ last.todos = last.canonical_before.todos)
        => /\ ~Blocked
           /\ canonical[last.project].kind = "snapshot"
           /\ canonical[last.project].task_ids = last.canonical_before.task_ids
           /\ canonical[last.project].task_count
                 = last.canonical_before.task_count

\* The list re-submitted holds an item without identifier and the same
\* identifier twice.
C4_Witness ==
    /\ IsWrite /\ last.status = "validated"
    /\ last.todos = last.canonical_before.todos
    /\ Len(last.todos) = 3
    /\ Cardinality(extract_task_ids(last.todos)) = 1
    /\ \E i \in 1..3 : extract_task_id(last.todos[i].content) = None

----------------------------------------------------------------------------
(* C5 *)

\* C5: a write that reaches reconciliation with a non-empty identifier set
\* sharing no identifier with a non-empty canonical.task_ids is allowed, and
\* the canonical snapshot is replaced by the write.
C5_FreshStart ==
    (/\ IsWrite
     /\ last.expected_before.kind = "absent"
     /\ last.canonical_before.kind = "snapshot"
     /\ last.canonical_before.task_ids # <<>>
     /\ extract_task_ids(last.todos) # {}
     /\ extract_task_ids(last.todos)
           \cap Range(last.canonical_before.task_ids) = {})
        => /\ ~Blocked
           /\ canonical[last.project].kind = "snapshot"
           /\ canonical[last.project].todos = last.todos

----------------------------------------------------------------------------
(* C6 *)

\* C6: a non-empty TodoWrite whose number of items differs from the integer
\* in the expectation file is blocked, whatever the canonical file is; the
\* expectation file and the canonical file are left as they were.
C6_MismatchBlocks ==
    (/\ IsWrite
     /\ last.todos # <<>>
     /\ last.expected_before.kind = "int"
     /\ Len(last.todos) # last.expected_before.n)
        => /\ Blocked
           /\ expected = last.expected_before
           /\ canonical[last.project] = last.canonical_before

\* A mismatch was blocked while the canonical file was unreadable.
C6_Witness ==
    /\ IsWrite /\ Blocked /\ last.status = "count_mismatch"
    /\ last.canonical_before.kind = "corrupt"
    /\ expected.kind = "int"

----------------------------------------------------------------------------
(* C7 *)

\* What the gate does on a match: the file is gone, nothing is blocked and
\* the canonical snapshot is the write.
GateConsumed ==
    /\ expected.kind = "absent"
    /\ ~Blocked
    /\ canonical[last.project].kind = "snapshot"
    /\ canonical[last.project].todos = last.todos
    /\ canonical[last.project].task_count = Len(last.todos)
    /\ Range(canonical[last.project].task_ids) = extract_task_ids(last.todos)

\* C7 as stated: a TodoWrite with exactly n items, n the integer in the
\* expectation file, deletes the file, is not blocked and becomes the
\* canonical snapshot.
C7_AsStated ==
    (/\ IsWrite
     /\ last.expected_before.kind = "int"
     /\ Len(last.todos) = last.expected_before.n)
        => GateConsumed

\* C7, amended: a non-empty TodoWrite with exactly n items, n the integer in
\* the expectation file, deletes the file, is not blocked and becomes the
\* canonical snapshot, whatever the canonical file held; and a run of the
\* hook changes the expectation file only in this way, so the file is
\* consumed by the first non-empty write of n items and by no other.
C7_MatchConsumesOnce ==
    /\ (/\ IsWrite
        /\ last.todos # <<>>
        /\ last.expected_before.kind = "int"
        /\ Len(last.todos) = last.expected_before.n)
           => GateConsumed
    /\ (last.op = "main" /\ expected # last.expected_before)
           => /\ IsWrite
              /\ last.todos # <<>>
              /\ last.expected_before.kind = "int"
              /\ Len(last.todos) = last.expected_before.n
              /\ expected.kind = "absent"

\* The gate was satisfied by a write that does not cover an identifier of
\* the canonical snapshot it replaced.
C7_Witness ==
    /\ IsWrite /\ last.status = "canonical_created"
    /\ last.canonical_before.kind = "snapshot"
    /\ Uncovered(Range(last.canonical_before.task_ids), last.todos) # {}
    /\ expected.kind = "absent"

----------------------------------------------------------------------------
(* C8 *)

\* C8: with no canonical file and no expectation file, a non-empty TodoWrite
\* is allowed and leaves a canonical snapshot holding exactly the items and
\* the identifiers of that write.
C8_ImplicitBootstrap ==
    (/\ IsWrite
     /\ last.todos # <<>>
     /\ last.canonical_before.kind = "absent"
     /\ last.expected_before.kind = "absent")
        => /\ ~Blocked
           /\ canonical[last.project].kind = "snapshot"
           /\ canonical[last.project].todos = last.todos
           /\ Range(canonical[last.project].task_ids)
                 = extract_task_ids(last.todos)

\* The first write of a project, holding an item without identifier.
C8_Witness ==
    /\ IsWrite /\ last.status = "canonical_created_implicit"
    /\ Len(last.todos) = 3
    /\ Cardinality(extract_task_ids(last.todos)) = 2
    /\ canonical["A"].todos = last.todos

----------------------------------------------------------------------------
(* C9 *)

\* The sort key of the claim: the integer before the first "." when that
\* part is all digits, else 999; then the identifier.
MissingKeyLess(a, b) ==
    LET num(x) == IF IsDigit(SplitFirst(x, "."))
                  THEN ToInt(SplitFirst(x, ".")) ELSE 999
    IN  \/ num(a) < num(b)
        \/ num(a) = num(b) /\ StrLess(a, b)

\* C9: when reconciliation blocks for task removal, the list it reports
\* holds exactly the uncovered identifiers of the canonical snapshot, each
\* once, in ascending order of the key.
C9_MissingExactSorted ==
    (last.op = "validate_todos" /\ last.status = "removal")
        => /\ Range(last.missing)
                 = Uncovered(Range(canonical["A"].task_ids), last.todos)
           /\ last.missing # <<>>
           /\ \A i, j \in 1..Len(last.missing) :
                 i < j => MissingKeyLess(last.missing[i], last.missing[j])

\* Three identifiers are reported: two whose numeric order is not their
\* string order, and one whose part before the "." is no number.
C9_Witness ==
    /\ last.op = "validate_todos" /\ last.status = "removal"
    /\ last.missing = << <<"2", ".", "1">>, <<"1", "0", ".", "1">>,
                         <<"p", "h", "a", "s", "e", "-", "2">> >>

----------------------------------------------------------------------------
(* C10 *)

\* C10: a write that covers every identifier of the canonical snapshot is
\* blocked exactly when it has fewer items than canonical.task_count and
\* holds no summary item of any phase.
C10_ShrinkBlocksIffUndeclared ==
    (/\ last.op = "validate_todos"
     /\ Uncovered(Range(canonical["A"].task_ids), last.todos) = {})
        => (Blocked <=> /\ Len(last.todos) < canonical["A"].task_count
                        /\ DeclaredPhases(last.todos) = {})

\* A write that keeps every identifier and drops an item without identifier
\* was blocked as a shrink.
C10_Witness ==
    /\ last.op = "validate_todos" /\ Blocked /\ last.status = "shrink"
    /\ Range(canonical["A"].task_ids) = extract_task_ids(last.todos)
    /\ Len(last.todos) = 2

----------------------------------------------------------------------------
(* C11 *)

\* t has the items of c in the same number, each with the text up to the
\* ":" that ends its identifier unchanged; an item without identifier keeps
\* its text.  Status is free.
CosmeticRewrite(c, t) ==
    /\ Len(t) = Len(c)
    /\ \A i \in 1..Len(c) :
          IF extract_task_id(c[i].content) = None
          THEN t[i].content = c[i].content
          ELSE \E k \in 1..Len(c[i].content) :
                  /\ c[i].content[k] = ":"
                  /\ \A j \in 1..(k - 1) : c[i].content[j] # ":"
                  /\ Len(t[i].content) >= k
                  /\ SubSeq(t[i].content, 1, k) = SubSeq(c[i].content, 1, k)

\* C11 as stated: a TodoWrite that is a cosmetic rewrite of the items of the
\* canonical snapshot is never blocked.
C11_AsStated ==
    (/\ IsWrite
     /\ last.canonical_before.kind = "snapshot"
     /\ CosmeticRewrite(last.canonical_before.todos, last.todos))
        => ~Blocked

\* C11, amended: a TodoWrite that is a cosmetic rewrite of the items of the
\* canonical snapshot is never blocked, unless an expectation file holds a
\* count other than the number of its items.
C11_ChurnAllowed ==
    (/\ IsWrite
     /\ last.canonical_before.kind = "snapshot"
     /\ CosmeticRewrite(last.canonical_before.todos, last.todos)
     /\ ~(/\ last.expected_before.kind = "int"
          /\ last.expected_before.n # Len(last.todos)))
        => ~Blocked

\* Reconciliation allowed a rewrite that changed the text of an item that
\* carries an identifier, and the status of an item.
C11_Witness ==
    /\ IsWrite /\ last.status = "validated"
    /\ CosmeticRewrite(last.canonical_before.todos, last.todos)
    /\ \E i \in 1..Len(last.todos) :
          /\ extract_task_id(last.todos[i].content) # None
          /\ last.todos[i].content # last.canonical_before.todos[i].content
    /\ \E i \in 1..Len(last.todos) :
          last.todos[i].status # last.canonical_before.todos[i].status

----------------------------------------------------------------------------
(* C12 *)

\* C12: while the canonical file cannot be read and no expectation file
\* exists, every non-empty TodoWrite is blocked and the canonical file is
\* left as it was.
C12_CorruptBlocks ==
    (/\ IsWrite
     /\ last.todos # <<>>
     /\ last.canonical_before.kind \in {"corrupt", "undecodable"}
     /\ last.expected_before.kind = "absent")
        => /\ Blocked
           /\ canonical[last.project] = last.canonical_before

----------------------------------------------------------------------------
(* C13 *)

\* C13: a run of the hook for another tool, or for an empty list, prints no
\* decision and leaves the canonical file and the expectation file as they
\* were.
C13_PassThrough ==
    (last.op = "main" /\ (last.tool_name # "TodoWrite" \/ last.todos = <<>>))
        => /\ last.decision = "none"
           /\ canonical[last.project] = last.canonical_before
           /\ expected = last.expected_before

\* A call of another tool carried a list that matches the count in the
\* expectation file and does not cover the canonical snapshot.
C13_Witness ==
    /\ last.op = "main" /\ last.tool_name = "Bash"
    /\ last.todos # <<>>
    /\ expected.kind = "int" /\ expected.n = Len(last.todos)
    /\ canonical["A"].kind = "snapshot"
    /\ Uncovered(Range(canonical["A"].task_ids), last.todos) # {}

----------------------------------------------------------------------------
(* The vocabulary of the checkpoint claims                                 *)

CkNow == checkpoints[<<"A", "s1">>]

CkBefore == last.checkpoints_before[<<"A", "s1">>]

ProgressCall == last.op \in {"update_checkpoint", "complete_item", "fail_item"}

\* b is a, or a with one entry appended at the end.
AppendedAtMostOne(a, b) ==
    /\ Len(b) \in {Len(a), Len(a) + 1}
    /\ SubSeq(b, 1, Len(a)) = a

----------------------------------------------------------------------------
(* C14 *)

\* C14 as stated: in every state of a checkpoint, status is completed if and
\* only if completed_items holds at least total_items entries.
C14_AsStated ==
    CkNow.kind = "checkpoint"
        => (CkNow.status = "completed"
                <=> Len(CkNow.completed_items) >= CkNow.total_items)

\* C14, amended: in every state of a checkpoint initialised with total_items
\* of at least 1, status is completed if and only if completed_items holds
\* at least total_items entries; with total_items 0 the status is completed
\* if and only if completed_items holds at least one entry.
C14_CompletedIffLedgerFull ==
    CkNow.kind = "checkpoint"
        => /\ CkNow.total_items >= 1
                 => (CkNow.status = "completed"
                        <=> Len(CkNow.completed_items) >= CkNow.total_items)
           /\ CkNow.total_items = 0
                 => (CkNow.status = "completed"
                        <=> Len(CkNow.completed_items) >= 1)

\* The second of two items was completed: the status went from in_progress
\* to completed.
C14_Witness ==
    /\ last.op = "complete_item" /\ last.exit_code = 0
    /\ CkNow.total_items = 2
    /\ Len(CkNow.completed_items) = 2
    /\ CkBefore.status = "in_progress"
    /\ CkNow.status = "completed"

----------------------------------------------------------------------------
(* C15 *)

\* C15: an update, complete or fail call on a completed checkpoint leaves it
\* completed; a completed checkpoint stops being one only by clear or init.
C15_StatusMonotonic ==
    (CkBefore.kind = "checkpoint" /\ CkBefore.status = "completed")
        => /\ ProgressCall
                 => CkNow.kind = "checkpoint" /\ CkNow.status = "completed"
           /\ ~(CkNow.kind = "checkpoint" /\ CkNow.status = "completed")
                 => last.op \in {"init_checkpoint", "clear",
                                 "clear_keep_canonical"}

\* An update moved the cursor of a completed checkpoint.
C15_Witness ==
    /\ last.op = "update_checkpoint" /\ last.exit_code = 0
    /\ CkBefore.status = "completed"
    /\ CkNow.status = "completed"
    /\ CkNow.current_index # CkBefore.current_index

----------------------------------------------------------------------------
(* C16 *)

\* C16: an update, complete or fail call on an existing checkpoint leaves
\* each ledger as it was, or as it was with one entry appended at the end.
C16_LedgersAppendOnly ==
    (ProgressCall /\ CkBefore.kind = "checkpoint")
        => /\ CkNow.kind = "checkpoint"
           /\ AppendedAtMostOne(CkBefore.completed_items,
                                CkNow.completed_items)
           /\ AppendedAtMostOne(CkBefore.failed_items, CkNow.failed_items)

\* A second failure was recorded, of another index and with another reason
\* than the first, on a checkpoint that has two items of different indexes
\* completed: the first failure is still the first entry.
C16_Witness ==
    /\ last.op = "fail_item" /\ last.exit_code = 0
    /\ Len(CkBefore.failed_items) = 1
    /\ Len(CkNow.failed_items) = 2
    /\ CkNow.failed_items[1] = CkBefore.failed_items[1]
    /\ CkNow.failed_items[1].index # CkNow.failed_items[2].index
    /\ CkNow.failed_items[1].reason # CkNow.failed_items[2].reason
    /\ Len(CkNow.completed_items) = 2
    /\ CkNow.completed_items[1].index # CkNow.completed_items[2].index

----------------------------------------------------------------------------
(* C17 *)

\* C17: after init the checkpoint has current_index 0, no current item or
\* task, empty ledgers and status in_progress, whatever was there before.
C17_InitFresh ==
    last.op = "init_checkpoint"
        => /\ CkNow.kind = "checkpoint"
           /\ CkNow.current_index = 0
           /\ CkNow.current_item_id = None
           /\ CkNow.current_item_name = None
           /\ CkNow.current_task = None
           /\ CkNow.completed_items = <<>>
           /\ CkNow.failed_items = <<>>
           /\ CkNow.status = "in_progress"

\* init replaced a completed checkpoint that had a failure recorded.
C17_Witness ==
    /\ last.op = "init_checkpoint"
    /\ CkBefore.kind = "checkpoint"
    /\ CkBefore.status = "completed"
    /\ CkBefore.failed_items # <<>>
    /\ CkBefore.current_index = 1
    /\ CkNow.failed_items = <<>>

----------------------------------------------------------------------------
(* C18 *)

\* C18: update, complete and fail for a spec name without checkpoint exit
\* with code 1 and leave the checkpoint files, the decision logs, the
\* canonical file and the expectation file as they were.
C18_NoCheckpointFails ==
    (ProgressCall /\ CkBefore.kind = "absent")
        => /\ last.exit_code = 1
           /\ checkpoints = last.checkpoints_before
           /\ decisions = last.decisions_before
           /\ canonical[last.project] = last.canonical_before
           /\ expected = last.expected_before

\* complete was called after clear --keep-canonical had removed the
\* checkpoint and left the canonical snapshot.
C18_Witness ==
    /\ last.op = "complete_item" /\ last.exit_code = 1
    /\ CkNow.kind = "absent"
    /\ canonical["A"].kind = "snapshot"

----------------------------------------------------------------------------
(* C19 *)

\* C19: after clear there is no checkpoint, no decision log and no canonical
\* file; after clear --keep-canonical there is no checkpoint and no decision
\* log, and the canonical file is as it was.
C19_ClearRemoves ==
    /\ last.op = "clear"
          => /\ CkNow.kind = "absent"
             /\ ~decisions[<<"A", "s1">>]
             /\ canonical["A"].kind = "absent"
    /\ last.op = "clear_keep_canonical"
          => /\ CkNow.kind = "absent"
             /\ ~decisions[<<"A", "s1">>]
             /\ canonical["A"] = last.canonical_before

\* clear removed a checkpoint, its decision log and a canonical snapshot.
C19_Witness ==
    /\ last.op = "clear"
    /\ CkBefore.kind = "checkpoint"
    /\ last.decisions_before[<<"A", "s1">>]
    /\ last.canonical_before.kind = "snapshot"
    /\ canonical["A"].kind = "absent"

----------------------------------------------------------------------------
(* C20 *)

\* C20: every canonical snapshot the hook has written has task_count equal
\* to the number of its items and task_ids holding, each once, exactly the
\* identifiers extract_task_id finds in its items.
C20_SnapshotInvariant ==
    \A p \in Projects :
        canonical[p].kind = "snapshot"
            => /\ canonical[p].task_count = Len(canonical[p].todos)
               /\ Range(canonical[p].task_ids)
                     = extract_task_ids(canonical[p].todos)
               /\ Len(canonical[p].task_ids)
                     = Cardinality(extract_task_ids(canonical[p].todos))

\* The snapshot holds three items: one identifier twice and an item without
\* identifier.
C20_Witness ==
    /\ canonical["A"].kind = "snapshot"
    /\ canonical["A"].task_count = 3
    /\ Len(canonical["A"].task_ids) = 1
    /\ \E i \in 1..3 : extract_task_id(canonical["A"].todos[i].content) = None

----------------------------------------------------------------------------
(* C21 *)

\* C21 as stated: two new lists that differ only in their items without
\* identifier get the same decision from reconciliation.
C21_AsStated ==
    (/\ last.op = "validate_todos_pair"
     /\ ItemsWithId(last.other) = ItemsWithId(last.todos))
        => last.other_decision = last.decision

\* C21, amended: two new lists that differ only in their items without
\* identifier are blocked for task removal together or not at all, with the
\* same missing identifiers; their decisions differ only when one of them is
\* blocked as a shrink, and that one is the shorter list.
C21_IdlessIgnoredByCoverage ==
    (/\ last.op = "validate_todos_pair"
     /\ ItemsWithId(last.other) = ItemsWithId(last.todos))
        => /\ (last.status = "removal") = (last.other_status = "removal")
           /\ last.missing = last.other_missing
           /\ last.decision # last.other_decision
                 => \/ /\ last.status = "shrink"
                       /\ Len(last.todos) < Len(last.other)
                    \/ /\ last.other_status = "shrink"
                       /\ Len(last.other) < Len(last.todos)

\* The canonical list was written again without its one item without
\* identifier: allowed with the item, blocked as a shrink without it.
C21_Witness ==
    /\ last.op = "validate_todos_pair"
    /\ last.todos = canonical["A"].todos
    /\ last.other = ItemsWithId(last.todos)
    /\ Len(last.other) = Len(last.todos) - 1
    /\ last.decision = "none"
    /\ last.other_status = "shrink"

----------------------------------------------------------------------------
(* C22 *)

\* C22: after a TodoWrite that matches the expectation file holding n, the
\* canonical snapshot holds expected_count = n.
C22_ExpectedCountRecorded ==
    (IsWrite /\ last.status = "canonical_created")
        => /\ get_expected_count(canonical[last.project]) # None
           /\ get_expected_count(canonical[last.project])
                 = last.expected_before.n

----------------------------------------------------------------------------
(* C23 *)

\* The last call is the TodoWrite that follows a killed run.
AfterKilled == IsWrite /\ last.previous_call.op = "main_killed"

\* C23 as stated: the non-empty TodoWrite that follows a run killed between
\* the removal of the expectation file and the save of the canonical file
\* is allowed and becomes the canonical snapshot, whatever the canonical
\* file was.
C23_AsStated ==
    AfterKilled
        => /\ ~Blocked
           /\ canonical[last.project].kind = "snapshot"
           /\ canonical[last.project].todos = last.todos

\* C23, amended: after such a killed run the expectation file is gone and
\* the canonical file is what it was; the TodoWrite that follows is allowed
\* and becomes the canonical snapshot when there was no canonical file, is
\* blocked when the canonical file is no JSON, ends with an uncaught
\* exception and no decision when the canonical file is no UTF-8 text (the
\* file stays as it is in both cases), and is otherwise reconciled against
\* the old snapshot, which it leaves as it was.
C23_KilledRunFallsBack ==
    AfterKilled
        => /\ last.expected_before.kind = "absent"
           /\ last.canonical_before = last.previous_call.canonical_before
           /\ last.canonical_before.kind = "absent"
                 => /\ ~Blocked
                    /\ canonical[last.project].kind = "snapshot"
                    /\ canonical[last.project].todos = last.todos
           /\ last.canonical_before.kind = "corrupt"
                 => Blocked /\ canonical[last.project] = last.canonical_before
           /\ last.canonical_before.kind = "undecodable"
                 => /\ ~Blocked
                    /\ last.status = "uncaught_exception"
                    /\ canonical[last.project] = last.canonical_before
           /\ last.canonical_before.kind = "snapshot"
                 => /\ canonical[last.project] = last.canonical_before
                    /\ Blocked <=>
                          \/ Uncovered(Range(last.canonical_before.task_ids),
                                       last.todos) # {}
                          \/ /\ Len(last.todos)
                                    < last.canonical_before.task_count
                             /\ DeclaredPhases(last.todos) = {}

\* The first write of a project was killed after the expectation file was
\* removed, and the next write, another list, became the canonical snapshot.
C23_Witness ==
    /\ AfterKilled
    /\ last.canonical_before.kind = "absent"
    /\ last.previous_call.expected_before.kind = "int"
    /\ last.previous_call.todos # last.todos
    /\ canonical["A"].kind = "snapshot"
    /\ canonical["A"].todos = last.todos

----------------------------------------------------------------------------
(* C24 *)

Cursor(ck) ==
    <<ck.current_index, ck.current_item_id, ck.current_item_name,
      ck.current_task>>

\* C24: update on an existing checkpoint sets current_index and
\* current_task, sets current_item_id when --item-id is given and keeps it
\* otherwise, sets current_item_name when --item-name is given and keeps
\* it otherwise, each whatever the other is, and leaves the ledgers,
\* status and total_items as they were.
C24_UpdateSetsCursorOnly ==
    (last.op = "update_checkpoint" /\ CkBefore.kind = "checkpoint")
        => /\ CkNow.kind = "checkpoint"
           /\ CkNow.completed_items = CkBefore.completed_items
           /\ CkNow.failed_items = CkBefore.failed_items
           /\ CkNow.status = CkBefore.status
           /\ CkNow.total_items = CkBefore.total_items
           /\ CkNow.current_index = last.index
           /\ CkNow.current_task = last.task
           /\ CkNow.current_item_id =
                 IF last.item_id = None THEN CkBefore.current_item_id
                                        ELSE last.item_id
           /\ CkNow.current_item_name =
                 IF last.item_name = None THEN CkBefore.current_item_name
                                          ELSE last.item_name

\* An update with --item-name and without --item-id moved the cursor of a
\* checkpoint whose current item had the id "x" and no name: the id
\* stayed and the name was set.
C24_Witness ==
    /\ last.op = "update_checkpoint" /\ last.exit_code = 0
    /\ last.item_id = None
    /\ last.item_name = <<"n">>
    /\ CkBefore.current_item_id = <<"x">>
    /\ CkBefore.current_item_name = None
    /\ CkNow.current_item_id = <<"x">>
    /\ CkNow.current_item_name = <<"n">>
    /\ CkNow.current_index # CkBefore.current_index
    /\ CkNow.completed_items # <<>>

----------------------------------------------------------------------------
(* C25 *)

----------------------------------------------------------------------------
(* C26 *)

\* C26: fail on an existing checkpoint appends one entry to failed_items
\* and leaves status, completed_items, the cursor and total_items as they
\* were; and whatever failures are recorded, a complete call that brings
\* completed_items to total_items entries makes the status completed.
C26_FailOnlyRecords ==
    /\ (last.op = "fail_item" /\ CkBefore.kind = "checkpoint")
          => /\ CkNow.kind = "checkpoint"
             /\ CkNow.failed_items
                   = Append(CkBefore.failed_items,
                            [index   |-> last.index,
                             item_id |-> IF last.item_id # None
                                         THEN last.item_id
                                         ELSE CkBefore.current_item_id,
                             reason  |-> last.reason])
             /\ CkNow.status = CkBefore.status
             /\ CkNow.completed_items = CkBefore.completed_items
             /\ Cursor(CkNow) = Cursor(CkBefore)
             /\ CkNow.total_items = CkBefore.total_items
    /\ (/\ last.op = "complete_item" /\ CkBefore.kind = "checkpoint"
        /\ Len(CkNow.completed_items) >= CkNow.total_items)
          => CkNow.status = "completed"

\* A second failure, with the reason "r", was recorded after the first on
\* a checkpoint that has one of its two items completed: it is still
\* in_progress.
C26_Witness ==
    /\ last.op = "fail_item" /\ last.exit_code = 0
    /\ last.reason = <<"r">>
    /\ CkNow.total_items = 2
    /\ Len(CkNow.completed_items) = 1
    /\ Len(CkBefore.failed_items) = 1
    /\ Len(CkNow.failed_items) = 2
    /\ CkNow.status = "in_progress"

----------------------------------------------------------------------------
(* C27 *)

\* C27: completed_items is empty after init, grows by exactly one entry
\* with every complete call on the checkpoint, whatever its index and
\* whatever the ledger holds, and keeps its length through every other
\* call; so its length is the number of complete calls since init.
C27_NoDeduplication ==
    /\ last.op = "init_checkpoint" => Len(CkNow.completed_items) = 0
    /\ (last.op = "complete_item" /\ CkBefore.kind = "checkpoint")
          => Len(CkNow.completed_items) = Len(CkBefore.completed_items) + 1
    /\ (/\ last.op \in {"update_checkpoint", "fail_item", "read_checkpoint"}
        /\ CkBefore.kind = "checkpoint")
          => Len(CkNow.completed_items) = Len(CkBefore.completed_items)

\* complete was called twice for index 0 of a checkpoint of two items: the
\* status is completed and index 1 has no entry.
C27_Witness ==
    /\ last.op = "complete_item" /\ last.exit_code = 0
    /\ CkNow.total_items = 2
    /\ Len(CkNow.completed_items) = 2
    /\ \A i \in 1..2 : CkNow.completed_items[i].index = 0
    /\ CkNow.status = "completed"

----------------------------------------------------------------------------
(* C28 *)

\* C28: when an allowed write has added an identifier the canonical
\* snapshot did not hold, a following non-empty write that leaves that
\* identifier uncovered is blocked.
C28_NewIdsTracked ==
    (/\ IsWrite
     /\ last.todos # <<>>
     /\ last.expected_before.kind = "absent"
     /\ last.previous_call.op = "main"
     /\ last.previous_call.status = "validated"
     /\ \E id \in extract_task_ids(last.previous_call.todos)
                       \ Range(last.previous_call.canonical_before.task_ids) :
           ~Covered(id, last.todos))
        => Blocked

----------------------------------------------------------------------------
(* C29 *)

\* C29: when reconciliation allows a write, every identifier of the
\* canonical snapshot that the write omits is of a phase p for which the
\* write holds an item with identifier "p.x" or "p.loop".
C29_OnlySummaryLicenses ==
    (last.op = "validate_todos" /\ ~Blocked)
        => \A id \in Range(canonical["A"].task_ids)
                         \ extract_task_ids(last.todos) :
              /\ Truthy(get_phase_number(id))
              /\ \E suffix \in {<<".", "x">>, <<".", "l", "o", "o", "p">>} :
                    (get_phase_number(id) \o suffix)
                        \in extract_task_ids(last.todos)

----------------------------------------------------------------------------
(* C30 *)

\* C30: after a TodoWrite call that the hook blocks, the canonical file of
\* the project and the expectation file are what they were before the call.
C30_BlockedWriteChangesNothing ==
    (IsWrite /\ Blocked)
        => /\ canonical[last.project] = last.canonical_before
           /\ expected = last.expected_before

\* A write blocked for a task removal while a snapshot was on disk.
C30_Witness ==
    /\ IsWrite /\ Blocked /\ last.status = "removal"
    /\ last.canonical_before.kind = "snapshot"
    /\ canonical[last.project] = last.canonical_before
    /\ expected = last.expected_before

----------------------------------------------------------------------------
(* C31, C32 *)

\* A canonical file the stop hook can read as a snapshot in SPEC mode with
\* at least one stored item that is not completed.
PendingInSpecMode(canon) ==
    /\ canon.kind = "snapshot"
    /\ "expected_count" \in DOMAIN canon
    /\ \E i \in 1..Len(canon.todos) : canon.todos[i].status # "completed"

\* C31: a run of the stop hook prints a block decision when the canonical
\* is a readable snapshot with a non-null expected_count and an item that is
\* not completed, and prints an approve decision in every other case.
C31_BlockIffPendingSpecMode ==
    (last.op = "stop")
        => IF PendingInSpecMode(canonical[last.project])
           THEN last.decision = "block"
           ELSE last.decision = "approve"

\* C32: a stop asked for right after the write that passed the count gate
\* is blocked exactly when that write holds an item that is not completed.
C32_StopFollowsLastWrite ==
    (/\ last.op = "stop"
     /\ last.previous_call.op = "main"
     /\ last.previous_call.status = "canonical_created")
        => (last.decision = "block"
              <=> \E i \in 1..Len(last.previous_call.todos) :
                     last.previous_call.todos[i].status # "completed")

----------------------------------------------------------------------------
(* C33, C34 *)

\* The last step is the TodoWrite of a list generate-todo.py printed
\* without --base, while the canonical file was the snapshot of the base
\* TODO of the same SPEC.
RenderedOverBase ==
    /\ IsWrite
    /\ last.previous_call.op = "generate_todo"
    /\ ~last.previous_call.base
    /\ last.canonical_before.kind = "snapshot"
    /\ last.canonical_before = save_canonical(generate_base_todos(spec_json))

\* C33: the list generate_todos makes of a SPEC and a checkpoint is allowed
\* by the hook against the canonical created from generate_base_todos of
\* the same SPEC.
C33_RenderedAccepted == RenderedOverBase => ~Blocked

\* C34: the count count_tasks reports for a SPEC is the number of items
\* generate-todo.py --base prints for the same SPEC.
C34_CountIsBaseLength ==
    (/\ last.op = "generate_todo"
     /\ last.exit_code = 0
     /\ last.base
     /\ last.previous_call.op = "count_tasks")
        => Len(last.printed) = last.previous_call.count

----------------------------------------------------------------------------
(* C35 *)

\* The last step dumped the checkpoint for update, complete or fail.
Dumped == ProgressCall /\ "loaded" \in DOMAIN last

\* No other call opened, wrote or unlinked the file between the load and
\* the dump of this call.
Serialized == ~last.overlapped

\* The ledgers of the file content f are not kept by the file as it is
\* now: the file is no checkpoint, or a ledger does not begin with the
\* entries it had in f.
LedgersLost(f) ==
    /\ f.kind = "checkpoint"
    /\ \/ CkNow.kind # "checkpoint"
       \/ Len(CkNow.completed_items) < Len(f.completed_items)
       \/ Len(CkNow.failed_items) < Len(f.failed_items)
       \/ SubSeq(CkNow.completed_items, 1, Len(f.completed_items))
             # f.completed_items
       \/ SubSeq(CkNow.failed_items, 1, Len(f.failed_items))
             # f.failed_items

\* A ledger entry the file held when the call opened it for writing, or
\* just before the dump, is not in the file after the dump.
EntryLost == LedgersLost(last.before_open) \/ LedgersLost(CkBefore)

\* C35: a dump of update, complete or fail that no step of another call
\* on the file came before since the load of the same call keeps every
\* entry of the two ledgers.
C35_SerializedKeepsEntries == (Dumped /\ Serialized) => ~EntryLost

\* Two calls interleaved: the dump of an update, loaded before another
\* call's complete was dumped, removes that entry from completed_items.
C35_Witness ==
    /\ Dumped /\ ~Serialized /\ EntryLost
    /\ last.op = "update_checkpoint"
    /\ last.before_open.kind = "checkpoint"
    /\ CkNow.kind = "checkpoint"
    /\ Len(CkNow.completed_items) < Len(last.before_open.completed_items)

----------------------------------------------------------------------------
(* C36 *)

\* The last call is a non-empty TodoWrite in project B that directly
\* follows the writing of the expectation file for project A.
FirstWriteElsewhere ==
    /\ IsWrite /\ last.project = "B" /\ last.todos # <<>>
    /\ last.previous_call.op = "write_expected"
    /\ last.previous_call.project = "A"

\* C36: the non-empty TodoWrite of project B that follows the writing of
\* the expectation file for project A is blocked on a count mismatch with
\* the file left in place, or on a match replaces B's canonical by its list
\* and removes the file; and the write of project A that follows such a
\* match is not count-checked.
C36_SharedExpectation ==
    /\ FirstWriteElsewhere
          => IF Len(last.todos) = last.expected_before.n
             THEN /\ ~Blocked /\ last.status = "canonical_created"
                  /\ canonical["B"] = save_canonical(last.todos)
                  /\ expected = NoExpected
             ELSE /\ Blocked /\ last.status = "count_mismatch"
                  /\ expected = last.expected_before
                  /\ canonical["B"] = last.canonical_before
    /\ (/\ IsWrite /\ last.project = "A"
        /\ last.previous_call.op = "main"
        /\ last.previous_call.project = "B"
        /\ last.previous_call.status = "canonical_created")
          => last.status \notin {"count_mismatch", "canonical_created"}

\* Project B had its own snapshot; the expectation written for A matched
\* B's write, and B's canonical was replaced by a different one.
C36_Witness ==
    /\ FirstWriteElsewhere
    /\ last.status = "canonical_created"
    /\ last.canonical_before.kind = "snapshot"
    /\ canonical["B"] # last.canonical_before
    /\ expected = NoExpected

----------------------------------------------------------------------------
(* C37 *)

\* The last call is a non-empty TodoWrite made while the expectation file
\* held text that is no integer.
WriteUnderGarbage ==
    IsWrite /\ last.todos # <<>> /\ last.expected_before = GarbageExpected

\* C37: a non-empty TodoWrite made while the expectation file holds text
\* that is no integer leaves the file as it is and is decided as without a
\* file: implicit bootstrap without a canonical, block on a corrupt one,
\* and otherwise the verdict of validate_todos against the snapshot.
C37_GarbageNotApplicable ==
    WriteUnderGarbage
        => /\ expected = GarbageExpected
           /\ last.status \notin {"count_mismatch", "canonical_created"}
           /\ IF last.canonical_before.kind = "absent"
              THEN /\ ~Blocked
                   /\ canonical[last.project] = save_canonical(last.todos)
              ELSE /\ canonical[last.project] = last.canonical_before
                   /\ IF last.canonical_before.kind = "corrupt"
                      THEN Blocked
                      ELSE Blocked <=>
                             ~validate_todos(last.todos,
                                             last.canonical_before).is_valid

\* A write blocked by reconciliation for a removed task while the file
\* held no integer; the file is still there.
C37_Witness ==
    /\ WriteUnderGarbage
    /\ last.canonical_before.kind = "snapshot"
    /\ Blocked /\ last.status = "removal"
    /\ expected = GarbageExpected

----------------------------------------------------------------------------
(* C38 *)

\* Position of the first ':' of s, or 0.
FirstColon(s) ==
    IF \E i \in 1..Len(s) : s[i] = ":"
    THEN CHOOSE i \in 1..Len(s) : s[i] = ":" /\ \A j \in 1..(i - 1) : s[j] # ":"
    ELSE 0

\* The text before the first ':' of the trimmed content, itself trimmed.
TrimmedPrefix(content) ==
    Strip(SubSeq(Strip(content), 1, FirstColon(Strip(content)) - 1))

IdShaped(prefix) ==
    /\ prefix # <<>>
    /\ \/ \E i \in 1..Len(prefix) : prefix[i] = "."
       \/ /\ Len(prefix) >= 6
          /\ SubSeq(prefix, 1, 6) = <<"p", "h", "a", "s", "e", "-">>
       \/ prefix[1] \in Digits

\* C38: extract_task_id gives the trimmed text before the first ':' of the
\* trimmed content when there is a ':' and that text is non-empty and holds
\* a '.', starts with "phase-" or begins with a digit, and None otherwise;
\* the result is the same with indentation put before the content and with
\* any other text put after the first ':'.
C38_ExtractId ==
    (last.op = "extract_task_id")
        => /\ last.task_id =
                 IF FirstColon(last.content) # 0
                    /\ IdShaped(TrimmedPrefix(last.content))
                 THEN TrimmedPrefix(last.content)
                 ELSE None
           /\ \A indent \in {<<" ">>, <<"\t">>, <<" ", " ">>} :
                 extract_task_id(indent \o last.content) = last.task_id
           /\ FirstColon(last.content) # 0
                 => \A tail \in ShortContents(2) :
                       extract_task_id(
                           SubSeq(last.content, 1, FirstColon(last.content))
                           \o tail) = last.task_id

\* An identifier taken from an indented content with blanks around it.
C38_Witness ==
    /\ last.op = "extract_task_id"
    /\ last.content = <<" ", "1", " ", ":">>
    /\ last.task_id = <<"1">>

====
